---- MODULE Spec2Model ----
(***************************************************************************)
(* A model of the request-lifecycle engine of async-web:                   *)
(*   - the worker pool (factory::Queue, factory::Worker,                   *)
(*     factory::WorkManager) and the accept loop of web::App;              *)
(*   - the trie router (RouteTree / RouteNode);                            *)
(*   - the connection pipeline (handle_client_request).                    *)
(***************************************************************************)
EXTENDS Integers, Sequences, FiniteSets, TLC

(***************************************************************************)
(* Bounds of the model.                                                    *)
(***************************************************************************)
MaxWorkers == 2

MaxConns == 2

MaxScaleFactor == 2

\* The number of Workers of a pool built by hand
HandBuiltWorkers == 2

\* The number of registration calls made on one App
MaxCalls == 2

\* App::bind creates the WorkManager with one worker; the result channel
\* has that capacity (app.rs:97, work_manager.rs:49).
initial_workers_size == 1

VARIABLES
    work,           \* Queue.work: the backlog, a sequence of futures
    permit,         \* Queue.deque_lock: the permit a Notify stores
    waiters,        \* Queue.deque_lock: the Notify's waiter list, oldest first
    fut,            \* per worker: the state of its pinned Notified future
    wpc,            \* per worker: the position of its driver task
    closed,         \* per worker: Worker.closed
    func,           \* per worker: the future it dequeued (0: none)
    size,           \* WorkManager.size
    workers,        \* the number of Workers of the pool (WorkManager.workers)
    chan,           \* the result channel (bounded mpsc)
    started,        \* per future: how many times a worker began to await it
    sent,           \* per future: how many times its result was sent
    queued,         \* per future: how many times it was pushed to the backlog
    apc,            \* the position of the App's driver task
    current_work,   \* the driver task's current_work (0: none)
    accepted,       \* how many connections the listener handed out
    listener,       \* App.listener is Some
    app_task,       \* App.app_task is Some
    shutdown,       \* App.shutdown is Some
    shutdown_rx,    \* recv on the shutdown channel is ready: a message
                    \* waits in it or its sender is gone
    close_pc,       \* the position of a caller inside App.close
    worker_scale_factor, \* App.worker_scale_factor
    cpc,            \* per worker: the position of a caller inside Worker.close
    cfw,            \* the position of a caller inside close_and_finish_work
    tree,           \* RouteTree.root: the trie, node key |-> resolutions
    missing_route,  \* RouteTree.missing_route
    registered,     \* the (path, method, endpoint) registrations that returned Ok
    last_op,        \* the last call on the router and what it returned
    global_middleware, \* App.global_middleware
    conn,           \* the connection a pipeline future is serving
    app_call,       \* the last call of start, close or close_unchecked and
                    \* what it returned
    dropped,        \* the App was dropped
    driver_tasks,   \* how many driver tasks App::start spawned
    channels,       \* how many shutdown channels App::start created
    worker_call,    \* per worker: what its last start_worker returned, how
                    \* many tasks it spawned, how many close calls got
                    \* past the checks
    held,           \* per Mutex: the task that holds its guard
    task_pc         \* per task: the lock operation it comes to next

poolVars == <<work, permit, waiters, fut, wpc, closed, func, size, workers,
              chan, started, sent, queued>>

appVars == <<apc, current_work, accepted, listener, app_task, shutdown,
             shutdown_rx, close_pc, worker_scale_factor>>

closeVars == <<cpc, cfw>>

routerVars == <<tree, missing_route, registered, last_op>>

pipeVars == <<global_middleware, conn>>

lifeVars == <<app_call, dropped, driver_tasks, channels>>

callVars == <<worker_call>>

lockVars == <<held, task_pc>>

vars == <<poolVars, appVars, closeVars, routerVars, pipeVars, lifeVars,
          callVars, lockVars>>

WorkerIds == 1..MaxWorkers

Futures == 1..MaxConns

NoWork == 0

\* The App's pool is a WorkManager<()>: every result is the unit value.
Result == "()"

(***************************************************************************)
(* tokio::sync::Notify, as the Queue uses it.  A Notify is a stored permit *)
(* and a list of registered waiters; a Notified future is "init" until it  *)
(* is enabled, then "waiting" (registered), "notified" (woken by           *)
(* notify_one) or "done" (it consumed the stored permit).                  *)
(***************************************************************************)
Notify == [permit |-> permit, waiters |-> waiters, fut |-> fut]

SetNotify(n) ==
    /\ permit' = n.permit
    /\ waiters' = n.waiters
    /\ fut' = n.fut

RemoveWaiter(ws, w) == SelectSeq(ws, LAMBDA x : x # w)

\* Notify::notify_one: wake the oldest registered waiter, or store the
\* permit when nobody is registered (a second permit is not stored).
notify_one(n) ==
    IF n.waiters # <<>>
    THEN [n EXCEPT !.waiters = Tail(n.waiters),
                   !.fut[Head(n.waiters)] = "notified"]
    ELSE [n EXCEPT !.permit = TRUE]

\* Notified::enable: consume the stored permit, or register as a waiter.
enable(n, w) ==
    IF n.fut[w] # "init" THEN n
    ELSE IF n.permit
    THEN [n EXCEPT !.permit = FALSE, !.fut[w] = "done"]
    ELSE [n EXCEPT !.waiters = Append(n.waiters, w), !.fut[w] = "waiting"]

\* Dropping a Notified future when deque returns: a registered waiter
\* leaves the list; a wake-up it received and did not use is passed on.
drop_notified(n, w) ==
    CASE n.fut[w] = "waiting" ->
            [n EXCEPT !.waiters = RemoveWaiter(n.waiters, w), !.fut[w] = "init"]
      [] n.fut[w] = "notified" ->
            notify_one([n EXCEPT !.fut[w] = "init"])
      [] OTHER -> [n EXCEPT !.fut[w] = "init"]

(***************************************************************************)
(* factory::Queue                                                          *)
(***************************************************************************)
\* How many times a future occurs in a backlog
Count(q, f) == Cardinality({i \in 1..Len(q) : q[i] = f})

\* A try_deque that hands out the head of the backlog and leaves it there
try_deque_peek(q) ==
    IF q = <<>> THEN [item |-> NoWork, rest |-> q]
    ELSE [item |-> Head(q), rest |-> q]

\* A try_deque that removes the newest item of the backlog
try_deque_last(q) ==
    IF q = <<>> THEN [item |-> NoWork, rest |-> q]
    ELSE [item |-> q[Len(q)], rest |-> SubSeq(q, 1, Len(q) - 1)]

\* Queue::try_deque, under the backlog lock: None on an empty backlog,
\* else remove(0).
try_deque(q) ==
    IF q = <<>> THEN [item |-> NoWork, rest |-> q]
    ELSE [item |-> Head(q), rest |-> Tail(q)]

\* QueueState: whether a dequeuer is registered for the wake signal at the
\* time of the call (Free), or none is (Blocked).
QueueStateOf(n) == IF n.waiters # <<>> THEN "Free" ELSE "Blocked"

(***************************************************************************)
(* factory::Worker: the driver task spawned by start_worker               *)
(*     while let Some(func) = work.deque(Some(closed)).await {             *)
(*         let r = func.await;  sender.send(r).await  }                    *)
(* with Queue::deque unfolded into its steps.                              *)
(***************************************************************************)
Live(w) == w \in 1..workers

\* deque, lines 68-72: the cancel flag is read under its lock; when it is
\* set deque returns None and the driver task ends.
WorkerCheck(w) ==
    /\ Live(w) /\ wpc[w] = "check"
    /\ wpc' = [wpc EXCEPT ![w] = IF closed[w] THEN "exited" ELSE "enable"]
    /\ UNCHANGED <<work, permit, waiters, fut, closed, func, size, workers,
                   chan, started, sent, queued, appVars, closeVars>>
    /\ UNCHANGED <<routerVars, lockVars, pipeVars, lifeVars, callVars>>

\* deque, line 74: fut.enable()
WorkerEnable(w) ==
    /\ Live(w) /\ wpc[w] = "enable"
    /\ SetNotify(enable(Notify, w))
    /\ wpc' = [wpc EXCEPT ![w] = "try"]
    /\ UNCHANGED <<work, closed, func, size, workers, chan, started, sent,
                   queued, appVars, closeVars>>
    /\ UNCHANGED <<routerVars, lockVars, pipeVars, lifeVars, callVars>>

\* deque, lines 76-78: try_deque; on Some(r) deque returns r (the pinned
\* future is dropped), on None the task goes on to await the wake signal.
WorkerTryDeque(w) ==
    /\ Live(w) /\ wpc[w] = "try"
    /\ LET r == try_deque(work) IN
         IF r.item # NoWork
         THEN /\ work' = r.rest
              /\ func' = [func EXCEPT ![w] = r.item]
              /\ SetNotify(drop_notified(Notify, w))
              /\ wpc' = [wpc EXCEPT ![w] = "poll"]
         ELSE /\ wpc' = [wpc EXCEPT ![w] = "await"]
              /\ UNCHANGED <<work, func, permit, waiters, fut>>
    /\ UNCHANGED <<closed, size, workers, chan, started, sent, queued,
                   appVars, closeVars>>
    /\ UNCHANGED <<routerVars, lockVars, pipeVars, lifeVars, callVars>>

\* A deque that returns None when it is woken and finds the backlog empty
WorkerAwaitReturns(w) ==
    /\ Live(w) /\ wpc[w] = "await"
    /\ fut[w] \in {"notified", "done"}
    /\ fut' = [fut EXCEPT ![w] = "init"]
    /\ wpc' = [wpc EXCEPT ![w] = IF work = <<>> THEN "exited" ELSE "check"]
    /\ UNCHANGED <<work, permit, waiters, closed, func, size, workers, chan,
                   started, sent, queued, appVars, closeVars>>
    /\ UNCHANGED <<routerVars, lockVars, pipeVars, lifeVars, callVars>>

\* deque, lines 80-82: fut.await completes once the future was notified or
\* holds the permit; a fresh Notified replaces it and the loop repeats.
WorkerAwait(w) ==
    /\ Live(w) /\ wpc[w] = "await"
    /\ fut[w] \in {"notified", "done"}
    /\ fut' = [fut EXCEPT ![w] = "init"]
    /\ wpc' = [wpc EXCEPT ![w] = "check"]
    /\ UNCHANGED <<work, permit, waiters, closed, func, size, workers, chan,
                   started, sent, queued, appVars, closeVars>>
    /\ UNCHANGED <<routerVars, lockVars, pipeVars, lifeVars, callVars>>

\* worker.rs line 67: the dequeued future is polled for the first time
WorkerPoll(w) ==
    /\ Live(w) /\ wpc[w] = "poll"
    /\ started' = [started EXCEPT ![func[w]] = @ + 1]
    /\ wpc' = [wpc EXCEPT ![w] = "running"]
    /\ UNCHANGED <<work, permit, waiters, fut, closed, func, size, workers,
                   chan, sent, queued, appVars, closeVars>>
    /\ UNCHANGED <<routerVars, lockVars, pipeVars, lifeVars, callVars>>

\* worker.rs line 67: func.await resolves
WorkerFinish(w) ==
    /\ Live(w) /\ wpc[w] = "running"
    /\ wpc' = [wpc EXCEPT ![w] = "send"]
    /\ UNCHANGED <<work, permit, waiters, fut, closed, func, size, workers,
                   chan, started, sent, queued, appVars, closeVars>>
    /\ UNCHANGED <<routerVars, lockVars, pipeVars, lifeVars, callVars>>

\* worker.rs lines 68-73: sender.send(result).await waits for room in the
\* bounded channel.  The receiver is owned by the WorkManager the workers
\* belong to, so the send never finds the channel closed.
WorkerSend(w) ==
    /\ Live(w) /\ wpc[w] = "send"
    /\ Len(chan) < initial_workers_size
    /\ chan' = Append(chan, Result)
    /\ sent' = [sent EXCEPT ![func[w]] = @ + 1]
    /\ func' = [func EXCEPT ![w] = NoWork]
    /\ wpc' = [wpc EXCEPT ![w] = "check"]
    /\ UNCHANGED <<work, permit, waiters, fut, closed, size, workers,
                   started, queued, appVars, closeVars>>
    /\ UNCHANGED <<routerVars, lockVars, pipeVars, lifeVars, callVars>>

\* App::consume: the task that drains the result channel
Consume ==
    /\ chan # <<>>
    /\ chan' = Tail(chan)
    /\ UNCHANGED <<work, permit, waiters, fut, wpc, closed, func, size,
                   workers, started, sent, queued, appVars, closeVars>>
    /\ UNCHANGED <<routerVars, lockVars, pipeVars, lifeVars, callVars>>

WorkerStep(w) ==
    \/ WorkerCheck(w)
    \/ WorkerEnable(w)
    \/ WorkerTryDeque(w)
    \/ WorkerAwait(w)
    \/ WorkerPoll(w)
    \/ WorkerFinish(w)
    \/ WorkerSend(w)

(***************************************************************************)
(* factory::WorkManager                                                    *)
(***************************************************************************)
\* A queue that wakes a waiter and loses the value
queue_no_push(q, n, value) == [work |-> q, notify |-> notify_one(n)]

\* Queue::queue: push the value and notify_one, under the backlog lock.
queue(q, n, value) == [work |-> Append(q, value), notify |-> notify_one(n)]

\* create_workers(worker_count): new Workers, each started (its driver
\* task spawned at the top of deque with a fresh Notified and a clear flag).
create_workers(pcs, from, worker_count) ==
    [w \in WorkerIds |->
        IF w > from /\ w <= from + worker_count THEN "check" ELSE pcs[w]]

\* What start_worker and close did on one Worker; n alternates with every
\* call of start_worker
WorkerCall(n, result, tasks, closes) ==
    [n |-> n, result |-> result, tasks |-> tasks, closes |-> closes]

\* Worker::new: no call yet
NoWorkerCall == WorkerCall(0, "", 0, 0)

\* create_workers calls start_worker once on each Worker it makes
start_workers(pcs) ==
    [w \in WorkerIds |->
        IF pcs[w] = "none" THEN NoWorkerCall ELSE WorkerCall(1, "Ok", 1, 0)]

\* scale_workers: new_size = size * scale_factor
new_size(current_size, scale_factor) == current_size * scale_factor

(***************************************************************************)
(* web::App: start, close and the driver task's accept loop                *)
(***************************************************************************)
\* What a lifecycle call returned; n alternates with every call, so that a
\* call is a step also when it returns what the call before it returned
AppCall(n, op, result) == [n |-> n, op |-> op, result |-> result]

NoAppCall == AppCall(0, "", "")

\* A state that reports Running once the listener was handed to a driver
state_of_listener == IF listener THEN "Closed" ELSE "Running"

\* App::state: Closed whenever there is no driver task handle
state == IF app_task THEN "Running" ELSE "Closed"

\* The driver task has ended, by leaving its loop or by a panic; its
\* shutdown receiver is gone with it.
DriverEnded == apc \in {"exited", "panicked"}

\* A method of the App can be called: the App exists and is not borrowed
\* by a close that is awaiting the driver task.
Callable == ~dropped /\ close_pc # "join"

\* A start that checks nothing and spawns a driver task on every call
AppStartUnchecked ==
    /\ Callable
    /\ listener' = FALSE
    /\ shutdown' = TRUE
    /\ channels' = channels + 1
    /\ app_task' = TRUE
    /\ driver_tasks' = driver_tasks + 1
    /\ apc' = "select"
    /\ app_call' = AppCall(1 - app_call.n, "start", "Ok(Running)")
    /\ UNCHANGED <<poolVars, current_work, accepted, shutdown_rx, close_pc,
                   worker_scale_factor, closeVars, dropped>>
    /\ UNCHANGED <<routerVars, lockVars, pipeVars, callVars>>

\* App::start.  With a task handle: Err(Running).  Without listener:
\* Err(Closed).  Otherwise the listener is taken, a shutdown channel is
\* created and the driver task is spawned.
AppStart ==
    /\ Callable
    /\ IF app_task
       THEN /\ app_call' = AppCall(1 - app_call.n, "start", "Err(Running)")
            /\ UNCHANGED <<listener, shutdown, app_task, apc, driver_tasks,
                           channels>>
       ELSE IF ~listener
       THEN /\ app_call' = AppCall(1 - app_call.n, "start", "Err(Closed)")
            /\ UNCHANGED <<listener, shutdown, app_task, apc, driver_tasks,
                           channels>>
       ELSE /\ listener' = FALSE
            /\ shutdown' = TRUE
            /\ channels' = channels + 1
            /\ app_task' = TRUE
            /\ driver_tasks' = driver_tasks + 1
            /\ apc' = "select"
            /\ app_call' = AppCall(1 - app_call.n, "start", "Ok(Running)")
    /\ UNCHANGED <<poolVars, current_work, accepted, shutdown_rx, close_pc,
                   worker_scale_factor, closeVars, dropped>>
    /\ UNCHANGED <<routerVars, lockVars, pipeVars, callVars>>

\* A close that leaves the task handle in the App
AppCloseKeepsTask ==
    /\ Callable
    /\ IF ~app_task
       THEN /\ app_call' = AppCall(1 - app_call.n, "close", "Err(Closed)")
            /\ UNCHANGED <<shutdown, shutdown_rx, close_pc>>
       ELSE /\ shutdown' = FALSE
            /\ shutdown_rx' = TRUE
            /\ close_pc' = "join"
            /\ app_call' = AppCall(1 - app_call.n, "close", "")
    /\ UNCHANGED <<poolVars, apc, current_work, accepted, listener, app_task,
                   worker_scale_factor, closeVars, dropped, driver_tasks,
                   channels>>
    /\ UNCHANGED <<routerVars, lockVars, pipeVars, callVars>>

\* A close that empties the backlog of the pool
AppCloseCancels ==
    /\ Callable
    /\ IF ~app_task
       THEN /\ app_call' = AppCall(1 - app_call.n, "close", "Err(Closed)")
            /\ UNCHANGED <<app_task, shutdown, shutdown_rx, close_pc, work>>
       ELSE /\ app_task' = FALSE
            /\ shutdown' = FALSE
            /\ shutdown_rx' = TRUE
            /\ close_pc' = "join"
            /\ work' = <<>>
            /\ app_call' = AppCall(1 - app_call.n, "close", "")
    /\ UNCHANGED <<permit, waiters, fut, wpc, closed, func, size, workers,
                   chan, started, sent, queued, apc, current_work, accepted,
                   listener, worker_scale_factor, closeVars, dropped,
                   driver_tasks, channels>>
    /\ UNCHANGED <<routerVars, lockVars, pipeVars, callVars>>

\* App::close, lines 268-275.  Without a task handle: Err(Closed).
\* Otherwise take the task and the sender and send (); a send that finds
\* no receiver is ignored.
AppClose ==
    /\ Callable
    /\ IF ~app_task
       THEN /\ app_call' = AppCall(1 - app_call.n, "close", "Err(Closed)")
            /\ UNCHANGED <<app_task, shutdown, shutdown_rx, close_pc>>
       ELSE /\ app_task' = FALSE
            /\ shutdown' = FALSE
            /\ shutdown_rx' = TRUE
            /\ close_pc' = "join"
            /\ app_call' = AppCall(1 - app_call.n, "close", "")
    /\ UNCHANGED <<poolVars, apc, current_work, accepted, listener,
                   worker_scale_factor, closeVars, dropped, driver_tasks,
                   channels>>
    /\ UNCHANGED <<routerVars, lockVars, pipeVars, callVars>>

\* A close that does not wait for the driver task
AppCloseReturnNoJoin ==
    /\ close_pc = "join"
    /\ close_pc' = "closed"
    /\ app_call' = [app_call EXCEPT !.result = "Ok(Closed)"]
    /\ UNCHANGED <<poolVars, apc, current_work, accepted, listener, app_task,
                   shutdown, shutdown_rx, worker_scale_factor, closeVars,
                   dropped, driver_tasks, channels>>
    /\ UNCHANGED <<routerVars, lockVars, pipeVars, callVars>>

\* App::close, lines 277-279: task.await returns once the driver task has
\* ended, by its return or by a panic; then Ok(Closed).
AppCloseReturn ==
    /\ close_pc = "join" /\ DriverEnded
    /\ close_pc' = "closed"
    /\ app_call' = [app_call EXCEPT !.result = "Ok(Closed)"]
    /\ UNCHANGED <<poolVars, apc, current_work, accepted, listener, app_task,
                   shutdown, shutdown_rx, worker_scale_factor, closeVars,
                   dropped, driver_tasks, channels>>
    /\ UNCHANGED <<routerVars, lockVars, pipeVars, callVars>>

\* App::close_unchecked.  Without a task handle: Err(Closed).  Otherwise
\* the handle and the sender are taken and () is sent: Ok(()) when the
\* driver's receiver is there, Err(Running) when the driver task has ended.
AppCloseUnchecked ==
    /\ Callable
    /\ IF ~app_task
       THEN /\ app_call' = AppCall(1 - app_call.n, "close_unchecked", "Err(Closed)")
            /\ UNCHANGED <<app_task, shutdown, shutdown_rx>>
       ELSE /\ app_task' = FALSE
            /\ shutdown' = FALSE
            /\ shutdown_rx' = TRUE
            /\ app_call' = AppCall(1 - app_call.n, "close_unchecked",
                                   IF DriverEnded THEN "Err(Running)" ELSE "Ok(())")
    /\ UNCHANGED <<poolVars, apc, current_work, accepted, listener, close_pc,
                   worker_scale_factor, closeVars, dropped, driver_tasks,
                   channels>>
    /\ UNCHANGED <<routerVars, lockVars, pipeVars, callVars>>

\* Drop for App.  drop calls self.close() and discards the future it
\* returns without polling it, so nothing of close runs.  The fields are
\* dropped after it: the listener if start never took it, the task handle
\* (the driver task is detached, not aborted), and the shutdown sender,
\* after which the driver's recv is ready with Closed.
AppDrop ==
    /\ ~dropped /\ close_pc # "join"
    /\ dropped' = TRUE
    /\ listener' = FALSE
    /\ app_task' = FALSE
    /\ shutdown' = FALSE
    /\ shutdown_rx' = (shutdown_rx \/ shutdown)
    /\ UNCHANGED <<poolVars, apc, current_work, accepted, close_pc,
                   worker_scale_factor, closeVars, app_call, driver_tasks,
                   channels>>
    /\ UNCHANGED <<routerVars, lockVars, pipeVars, callVars>>

\* select!, first branch: recv on the shutdown channel returned, with the
\* message or with Closed
DriverShutdown ==
    /\ apc = "select" /\ shutdown_rx
    /\ apc' = "exited"
    /\ UNCHANGED <<poolVars, current_work, accepted, listener, app_task,
                   shutdown, shutdown_rx, close_pc, worker_scale_factor,
                   closeVars>>
    /\ UNCHANGED <<routerVars, lockVars, pipeVars, lifeVars, callVars>>

\* select!, second branch: a client is accepted and its pipeline future
\* becomes current_work.
DriverAccept ==
    /\ apc = "select" /\ accepted < MaxConns
    /\ accepted' = accepted + 1
    /\ current_work' = accepted + 1
    /\ apc' = "queue"
    /\ UNCHANGED <<poolVars, listener, app_task, shutdown, shutdown_rx,
                   close_pc, worker_scale_factor, closeVars>>
    /\ UNCHANGED <<routerVars, lockVars, pipeVars, lifeVars, callVars>>

\* app.rs lines 223-229: queue_work(current_work).  Free: the future is in
\* the backlog and a waiter was woken.  Blocked(returned_work): the future
\* was not queued and is current_work again.
DriverQueueWork ==
    /\ apc = "queue" /\ cfw # "closing"
    /\ IF QueueStateOf(Notify) = "Free"
       THEN LET r == queue(work, Notify, current_work) IN
            /\ work' = r.work
            /\ SetNotify(r.notify)
            /\ queued' = [queued EXCEPT ![current_work] =
                              @ + Count(r.work, current_work) - Count(work, current_work)]
            /\ current_work' = NoWork
            /\ apc' = "select"
       ELSE /\ new_size(size, worker_scale_factor) <= MaxWorkers
            /\ apc' = "scale"
            /\ UNCHANGED <<work, permit, waiters, fut, queued, current_work>>
    /\ UNCHANGED <<wpc, closed, func, size, workers, chan, started, sent,
                   accepted, listener, app_task, shutdown, shutdown_rx,
                   close_pc, worker_scale_factor, closeVars>>
    /\ UNCHANGED <<routerVars, lockVars, pipeVars, lifeVars, callVars>>

\* A scale_workers that cuts the pool down to new_size when that is below
\* the current size
DriverScaleTruncates ==
    /\ apc = "scale"
    /\ LET n == new_size(size, worker_scale_factor) IN
        /\ wpc' = IF n >= size THEN create_workers(wpc, workers, n - size)
                  ELSE [w \in WorkerIds |-> IF w > n THEN "none" ELSE wpc[w]]
        /\ worker_call' =
              [w \in WorkerIds |->
                  IF wpc[w] = "none" /\ wpc'[w] # "none"
                  THEN start_workers(wpc')[w] ELSE worker_call[w]]
        /\ workers' = n
        /\ size' = n
        /\ apc' = "yield"
        /\ UNCHANGED current_work
    /\ UNCHANGED <<work, permit, waiters, fut, closed, func, chan, started,
                   sent, queued, accepted, listener, app_task,
                   shutdown, shutdown_rx, close_pc, worker_scale_factor,
                   closeVars>>
    /\ UNCHANGED <<routerVars, lockVars, pipeVars, lifeVars>>

\* app.rs lines 232-235: scale_workers(scale_factor), then the lock on the
\* WorkManager is dropped.  When new_size is below the current size the
\* usize subtraction new_size - current_size underflows: a debug build
\* panics there, which ends the task and drops the future it holds; a
\* release build wraps, and create_workers never gets through its count.
DriverScale ==
    /\ apc = "scale"
    /\ LET n == new_size(size, worker_scale_factor) IN
        IF n >= size
        THEN /\ wpc' = create_workers(wpc, workers, n - size)
             /\ worker_call' =
                   [w \in WorkerIds |->
                       IF wpc[w] = "none" /\ wpc'[w] # "none"
                       THEN start_workers(wpc')[w] ELSE worker_call[w]]
             /\ workers' = workers + (n - size)
             /\ size' = workers + (n - size)
             /\ apc' = "yield"
             /\ UNCHANGED current_work
        ELSE /\ \/ apc' = "panicked" /\ current_work' = NoWork
                \/ apc' = "create_workers" /\ UNCHANGED current_work
             /\ UNCHANGED <<wpc, workers, size, worker_call>>
    /\ UNCHANGED <<work, permit, waiters, fut, closed, func, chan, started,
                   sent, queued, accepted, listener, app_task,
                   shutdown, shutdown_rx, close_pc, worker_scale_factor,
                   closeVars>>
    /\ UNCHANGED <<routerVars, lockVars, pipeVars, lifeVars>>

\* app.rs line 238: yield_now, then the retry
DriverYield ==
    /\ apc = "yield"
    /\ apc' = "queue"
    /\ UNCHANGED <<poolVars, current_work, accepted, listener, app_task,
                   shutdown, shutdown_rx, close_pc, worker_scale_factor,
                   closeVars>>
    /\ UNCHANGED <<routerVars, lockVars, pipeVars, lifeVars, callVars>>

(***************************************************************************)
(* Worker::close and WorkManager::close_and_finish_work                    *)
(***************************************************************************)
\* What Worker::close can return with an error before it changed anything
CloseErrors == {"NoTaskRunning", "AlreadyClosed"}

\* close_and_finish_work polls the close futures in the order of the
\* worker vector; a direct call of Worker::close waits for nobody.
CloseTurn(w) ==
    \/ cfw # "closing"
    \/ \A v \in 1..(w - 1) : cpc[v] \in {"join", "ok"} \union CloseErrors

\* A start_worker that does not look at the task handle
StartWorkerUnchecked(w) ==
    /\ Live(w) /\ cpc[w] \notin {"called", "notify", "join"}
    /\ wpc' = [wpc EXCEPT ![w] = "check"]
    /\ worker_call' = [worker_call EXCEPT ![w] =
                          WorkerCall(1 - @.n, "Ok", @.tasks + 1, @.closes)]
    /\ UNCHANGED <<work, permit, waiters, fut, closed, func, size, workers,
                   chan, started, sent, queued, appVars, closeVars>>
    /\ UNCHANGED <<routerVars, lockVars, pipeVars, lifeVars>>

\* Worker::start_worker.  With a task handle: AlreadyRunning.  Otherwise
\* the driver task is spawned, at the top of deque, and kept in self.task.
\* The call needs &mut self, which a pending close holds.
StartWorker(w) ==
    /\ Live(w) /\ cpc[w] \notin {"called", "notify", "join"}
    /\ IF wpc[w] # "none"
       THEN /\ worker_call' = [worker_call EXCEPT ![w] =
                    WorkerCall(1 - @.n, "AlreadyRunning", @.tasks, @.closes)]
            /\ UNCHANGED wpc
       ELSE /\ wpc' = [wpc EXCEPT ![w] = "check"]
            /\ worker_call' = [worker_call EXCEPT ![w] =
                    WorkerCall(1 - @.n, "Ok", @.tasks + 1, @.closes)]
    /\ UNCHANGED <<work, permit, waiters, fut, closed, func, size, workers,
                   chan, started, sent, queued, appVars, closeVars>>
    /\ UNCHANGED <<routerVars, lockVars, pipeVars, lifeVars>>

\* Worker::close, lines 92-103: NoTaskRunning without a task handle; then,
\* under the flag's lock, AlreadyClosed if the flag is set, else set it.
WorkerCloseFlag(w) ==
    /\ Live(w) /\ cpc[w] = "called" /\ CloseTurn(w)
    /\ IF wpc[w] = "none"
       THEN /\ cpc' = [cpc EXCEPT ![w] = "NoTaskRunning"]
            /\ UNCHANGED <<closed, worker_call>>
       ELSE IF closed[w]
       THEN /\ cpc' = [cpc EXCEPT ![w] = "AlreadyClosed"]
            /\ UNCHANGED <<closed, worker_call>>
       ELSE /\ closed' = [closed EXCEPT ![w] = TRUE]
            /\ cpc' = [cpc EXCEPT ![w] = "notify"]
            /\ worker_call' = [worker_call EXCEPT ![w].closes = @ + 1]
    /\ UNCHANGED <<work, permit, waiters, fut, wpc, func, size, workers, chan,
                   started, sent, queued, appVars, cfw>>
    /\ UNCHANGED <<routerVars, lockVars, pipeVars, lifeVars>>

\* Worker::close, line 105: self.work.deque_lock.notify_one()
WorkerCloseNotify(w) ==
    /\ Live(w) /\ cpc[w] = "notify"
    /\ SetNotify(notify_one(Notify))
    /\ cpc' = [cpc EXCEPT ![w] = "join"]
    /\ UNCHANGED <<work, wpc, closed, func, size, workers, chan, started,
                   sent, queued, appVars, cfw>>
    /\ UNCHANGED <<routerVars, lockVars, pipeVars, lifeVars, callVars>>

\* A close that returns Ok without waiting for the driver task
WorkerCloseJoinEarly(w) ==
    /\ Live(w) /\ cpc[w] = "join"
    /\ cpc' = [cpc EXCEPT ![w] = "ok"]
    /\ UNCHANGED <<poolVars, appVars, cfw>>
    /\ UNCHANGED <<routerVars, lockVars, pipeVars, lifeVars, callVars>>

\* Worker::close, lines 113-115: the join completes when the driver ended
WorkerCloseJoin(w) ==
    /\ Live(w) /\ cpc[w] = "join"
    /\ wpc[w] = "exited"
    /\ cpc' = [cpc EXCEPT ![w] = "ok"]
    /\ UNCHANGED <<poolVars, appVars, cfw>>
    /\ UNCHANGED <<routerVars, lockVars, pipeVars, lifeVars, callVars>>

\* close_and_finish_work, lines 140-145: a close future for every worker.
\* The call borrows the WorkManager exclusively: no queue_work or
\* scale_workers runs until it returns.
CloseAndFinishWork ==
    /\ cfw = "idle" /\ apc \in {"select", "queue"}
    /\ cfw' = "closing"
    /\ cpc' = [w \in WorkerIds |-> IF Live(w) THEN "called" ELSE cpc[w]]
    /\ UNCHANGED <<poolVars, appVars>>
    /\ UNCHANGED <<routerVars, lockVars, pipeVars, lifeVars, callVars>>

\* close_and_finish_work, line 147: join_all(close_futs).await is over
CloseAndFinishWorkReturn ==
    /\ cfw = "closing"
    /\ \A w \in 1..workers : cpc[w] \in {"ok"} \union CloseErrors
    /\ cfw' = "returned"
    /\ UNCHANGED <<poolVars, appVars, cpc>>
    /\ UNCHANGED <<routerVars, lockVars, pipeVars, lifeVars, callVars>>

\* A direct call of Worker::close on one worker of a pool built by hand.
\* One other started worker is left that nobody has closed.
WorkerCloseCall(w) ==
    /\ Live(w) /\ cpc[w] = "idle"
    /\ \E v \in 1..workers : v # w /\ cpc[v] = "idle"
    /\ cpc' = [cpc EXCEPT ![w] = "called"]
    /\ UNCHANGED <<poolVars, appVars, cfw>>
    /\ UNCHANGED <<routerVars, lockVars, pipeVars, lifeVars, callVars>>

\* A call of Worker::close on any Worker its owner holds, whatever was
\* called on it before; &mut self keeps a second call out while one is
\* pending.
WorkerClose(w) ==
    /\ Live(w) /\ cpc[w] \notin {"called", "notify", "join"}
    /\ cpc' = [cpc EXCEPT ![w] = "called"]
    /\ UNCHANGED <<poolVars, appVars, cfw>>
    /\ UNCHANGED <<routerVars, lockVars, pipeVars, lifeVars, callVars>>

\* Queue::queue called by the owner of a pool built by hand; on Blocked the
\* value comes back and the owner tries again later.
ClientQueue ==
    /\ apc = "queue"
    /\ QueueStateOf(Notify) = "Free"
    /\ LET r == queue(work, Notify, current_work) IN
        /\ work' = r.work
        /\ SetNotify(r.notify)
        /\ queued' = [queued EXCEPT ![current_work] =
                          @ + Count(r.work, current_work) - Count(work, current_work)]
    /\ current_work' = NoWork
    /\ apc' = "select"
    /\ UNCHANGED <<wpc, closed, func, size, workers, chan, started, sent,
                   accepted, listener, app_task, shutdown, shutdown_rx,
                   close_pc, worker_scale_factor, closeVars>>
    /\ UNCHANGED <<routerVars, lockVars, pipeVars, lifeVars, callVars>>

\* The owner of the pool has a new future to submit.
ClientSubmit ==
    /\ apc = "select" /\ accepted < MaxConns
    /\ accepted' = accepted + 1
    /\ current_work' = accepted + 1
    /\ apc' = "queue"
    /\ UNCHANGED <<poolVars, listener, app_task, shutdown, shutdown_rx,
                   close_pc, worker_scale_factor, closeVars>>
    /\ UNCHANGED <<routerVars, lockVars, pipeVars, lifeVars, callVars>>

(***************************************************************************)
(* web::routing::router: RouteNode and RouteTree.  A route string is a     *)
(* sequence of characters; the model's characters are "/", "{", "}", "*"   *)
(* and whole words.  A node is named by its key, the ids on the way from   *)
(* the root; the tree maps each key to the node's resolutions.             *)
(***************************************************************************)
Methods == {"GET", "POST"}

\* A MiddlewareCollection that is None: nothing to call
NoMiddleware == <<>>

\* EndPoint::new
EndPoint(resolution, middleware) ==
    [resolution |-> resolution, middleware |-> middleware]

\* None, for an Option<EndPoint>, an Option<(Method, EndPoint)> and an
\* Option<RouteNodeRef>
NoEndPoint == EndPoint(0, NoMiddleware)

None == [method |-> "", endpoint |-> NoEndPoint]

Some(method, endpoint) == [method |-> method, endpoint |-> endpoint]

NoNode == << <<>> >>

\* The key of the root node
Root == <<>>

\* str::split('/'): the parts between the separators, empty parts included
RECURSIVE split(_)
split(s) ==
    IF s = <<>> THEN << <<>> >>
    ELSE IF Head(s) = "/" THEN << <<>> >> \o split(Tail(s))
    ELSE LET r == split(Tail(s)) IN << <<Head(s)>> \o Head(r) >> \o Tail(r)

\* RouteNode::is_variable_id
is_variable_id(id) ==
    id # <<>> /\ Head(id) = "{" /\ id[Len(id)] = "}"

\* RouteNode::new: a node without children, holding the endpoint if given
new(end_point) ==
    IF end_point = None THEN [m \in Methods |-> NoEndPoint]
    ELSE [m \in Methods |-> IF m = end_point.method THEN end_point.endpoint
                            ELSE NoEndPoint]

\* RouteTree::new: a root node "/" and no missing route
new_tree == [k \in {Root} |-> new(None)]

IsPrefix(p, k) == Len(p) <= Len(k) /\ SubSeq(k, 1, Len(p)) = p

\* RouteNode::brw_resolution
brw_resolution(t, node, method) == t[node][method]

\* RouteNode::insert_resolution
insert_resolution(t, node, method, resolution) ==
    [t EXCEPT ![node][method] = resolution]

\* RouteNode::brw_child: the literal child of that id
brw_child(t, node, id) ==
    IF ~is_variable_id(id) /\ Append(node, id) \in DOMAIN t
    THEN Append(node, id) ELSE NoNode

\* A node that never has a variable child
var_child_none(t, node) == NoNode

\* RouteNode.var_child
var_child(t, node) ==
    LET vs == {k \in DOMAIN t : /\ Len(k) = Len(node) + 1
                                /\ IsPrefix(node, k)
                                /\ is_variable_id(k[Len(k)])}
    IN  IF vs = {} THEN NoNode ELSE CHOOSE k \in vs : TRUE

\* RouteNode::add_child: a fresh node takes the variable slot of the parent
\* when the id is a variable id (the node that was there goes with all below
\* it), else the slot of that id in the children map.
add_child(t, parent, id, end_point) ==
    LET key  == Append(parent, id)
        gone == IF is_variable_id(id)
                THEN {k \in DOMAIN t : /\ Len(k) > Len(parent)
                                       /\ IsPrefix(parent, k)
                                       /\ is_variable_id(k[Len(parent) + 1])}
                ELSE {k \in DOMAIN t : IsPrefix(key, k)}
    IN  [k \in (DOMAIN t \ gone) \cup {key} |->
            IF k = key THEN new(end_point) ELSE t[k]]

\* The loop of RouteTree::add_route over the parts of the route
RECURSIVE add_route_parts(_, _, _, _, _)
add_route_parts(t, parts, i, node, end_point) ==
    IF i > Len(parts) THEN [tree |-> t, result |-> "Ok"]
    ELSE LET rte_part == parts[i]
             is_last == i = Len(parts)
             child == Append(node, rte_part)
             has_child == brw_child(t, node, rte_part) # NoNode
         IN  IF rte_part = <<>>
             THEN add_route_parts(t, parts, i + 1, node, end_point)
             ELSE IF has_child
             THEN IF is_last
                  THEN [tree |-> IF end_point = None THEN t
                                 ELSE insert_resolution(t, child, end_point.method,
                                                        end_point.endpoint),
                        result |-> "Ok"]
                  ELSE add_route_parts(t, parts, i + 1, child, end_point)
             ELSE LET added == add_child(t, node, rte_part,
                                   IF is_last THEN end_point ELSE None)
                  IN  IF is_last THEN [tree |-> added, result |-> "Ok"]
                      ELSE add_route_parts(added, parts, i + 1, child, end_point)

\* RouteTree::add_route
add_route(t, route, end_point) ==
    IF route = <<>> THEN [tree |-> t, result |-> "InvalidRoute"]
    ELSE IF route = <<"/">>
    THEN IF end_point = None THEN [tree |-> t, result |-> "MethodMissing"]
         ELSE [tree |-> insert_resolution(t, Root, end_point.method,
                                          end_point.endpoint),
               result |-> "Ok"]
    ELSE add_route_parts(t, split(route), 1, Root, end_point)

\* The loop of RouteTree::get_route over the parts of the route
RECURSIVE get_route_parts(_, _, _, _)
get_route_parts(t, parts, i, current_node) ==
    IF i > Len(parts) THEN current_node
    ELSE LET route_part == parts[i]
             child == brw_child(t, current_node, route_part)
             var == var_child(t, current_node)
         IN  IF route_part = <<>>
             THEN get_route_parts(t, parts, i + 1, current_node)
             ELSE IF child # NoNode
             THEN get_route_parts(t, parts, i + 1, child)
             ELSE IF var = NoNode THEN NoNode
             ELSE IF var[Len(var)] = <<"{", "*", "}">> THEN var
             ELSE get_route_parts(t, parts, i + 1, var)

\* A variant of get_route to which an empty part after the first is a
\* segment like any other
get_route_strict(t, full_route) ==
    IF full_route = <<"/">> THEN Root
    ELSE LET route_parts == split(full_route)
         IN  get_route_parts(t, [i \in 1..Len(route_parts) |->
                                    IF i > 1 /\ route_parts[i] = <<>> THEN <<"">>
                                    ELSE route_parts[i]],
                             1, Root)

\* RouteTree::get_route
get_route(t, full_route) ==
    IF full_route = <<"/">> THEN Root
    ELSE get_route_parts(t, split(full_route), 1, Root)

\* The parent of a node (RouteNode.parent): none for the root
parent(node) == IF node = Root THEN NoNode ELSE SubSeq(node, 1, Len(node) - 1)

\* [&str]::join("/")
RECURSIVE join(_)
join(parts) ==
    IF parts = <<>> THEN <<>>
    ELSE IF Len(parts) = 1 THEN parts[1]
    ELSE parts[1] \o <<"/">> \o join(Tail(parts))

\* HashMap::insert
insert(map, key, value) ==
    [k \in DOMAIN map \cup {key} |-> IF k = key THEN value ELSE map[k]]

\* The words of a route: its non-empty parts
Segments(route) == SelectSeq(split(route), LAMBDA p : p # <<>>)

\* The part of a route part before its first "?" (str::split_once)
RECURSIVE non_param(_)
non_param(part) ==
    IF part = <<>> \/ Head(part) = "?" THEN <<>>
    ELSE <<Head(part)>> \o non_param(Tail(part))

\* Route::parse_route: the cleaned route is "/" + part for every non-empty
\* part of the request path, each cut at its first "?"
RECURSIVE cleaned_route(_)
cleaned_route(route_parts) ==
    IF route_parts = <<>> THEN <<>>
    ELSE LET p == non_param(Head(route_parts))
         IN  (IF p = <<>> THEN <<>> ELSE <<"/">> \o p)
                 \o cleaned_route(Tail(route_parts))

parse_route(init_route) == cleaned_route(Segments(init_route))

(***************************************************************************)
(* web::App: the registration calls.  Every call wraps the handler it is   *)
(* given in a new Arc: the endpoint of the n-th call is named n.           *)
(***************************************************************************)
\* What a call that returned Ok leaves in the record of registrations
Register(regs, route, method, endpoint) ==
    {r \in regs : ~(r.path = Segments(route) /\ r.method = method)}
        \cup {[route |-> route, path |-> Segments(route), method |-> method,
               endpoint |-> endpoint]}

RouterCall(op, route, method, endpoint, r) ==
    /\ tree' = r.tree
    /\ last_op' = [n |-> last_op.n + 1, op |-> op, route |-> route,
                   method |-> method, endpoint |-> endpoint, result |-> r.result]
    /\ registered' = IF r.result = "Ok"
                     THEN Register(registered, route, method, endpoint)
                     ELSE registered
    /\ UNCHANGED <<missing_route, pipeVars, lockVars, poolVars, appVars,
                   closeVars, lifeVars, callVars>>

\* No call on the router yet
NoCall == [n |-> 0, op |-> "none", route |-> <<>>, method |-> "",
           endpoint |-> NoEndPoint, result |-> "Ok"]

\* App::add_or_change_route
AppAddOrChangeRoute(route, method, middleware) ==
    /\ last_op.n < MaxCalls
    /\ LET endpoint == EndPoint(last_op.n + 1, middleware)
       IN  RouterCall("add_or_change_route", route, method, endpoint,
                      add_route(tree, route, Some(method, endpoint)))

\* App::add_route
AppAddRoute(route, method, middleware) ==
    /\ last_op.n < MaxCalls
    /\ LET rte == get_route(tree, route)
           endpoint == EndPoint(last_op.n + 1, middleware)
       IN  RouterCall("add_route", route, method, endpoint,
               IF rte # NoNode /\ brw_resolution(tree, rte, method) # NoEndPoint
               THEN [tree |-> tree, result |-> "Exist"]
               ELSE add_route(tree, route, Some(method, endpoint)))

\* RouteTree::add_missing_route, through App::get_router
AddMissingRoute ==
    /\ last_op.n < MaxCalls
    /\ missing_route' = {new(Some("GET", EndPoint(last_op.n + 1, NoMiddleware)))}
    /\ last_op' = [n |-> last_op.n + 1, op |-> "add_missing_route", route |-> <<>>,
                   method |-> "GET",
                   endpoint |-> EndPoint(last_op.n + 1, NoMiddleware),
                   result |-> "Ok"]
    /\ UNCHANGED <<tree, registered, pipeVars, lockVars, poolVars, appVars,
                   closeVars, lifeVars, callVars>>

\* App::use_middleware
UseMiddleware(closure) ==
    /\ last_op.n < MaxCalls
    /\ global_middleware' = Append(global_middleware, closure)
    /\ last_op' = [n |-> last_op.n + 1, op |-> "use_middleware", route |-> <<>>,
                   method |-> "GET", endpoint |-> NoEndPoint, result |-> "Ok"]
    /\ UNCHANGED <<tree, missing_route, registered, conn, lockVars, poolVars, appVars,
                   closeVars, lifeVars, callVars>>

(***************************************************************************)
(* The connection pipeline: handle_client_request, run by a worker for one *)
(* accepted connection.  conn.calls is the user code it has invoked, in    *)
(* order; conn.out is what it has written to the stream.                   *)
(***************************************************************************)
\* A Resolution: the status of its HTTP/1.1 header, its other headers in
\* insertion order, and the chunks its content stream yields
Resolution(status, content) ==
    [status |-> status, headers |-> <<>>, content |-> content]

\* None, for an Option<Box<dyn Resolution>>
NoResolution == Resolution(0, <<>>)

\* Vec::with_capacity(0)
empty_content == <<>>

\* EmptyResolution::status(code).resolve(): the status header alone, and a
\* stream of one chunk, which is empty
EmptyResolution(status_code) == Resolution(status_code, <<empty_content>>)

\* The Resolution the handler of the n-th registration returns: every
\* byte of its content names the handler.  Handler 1 streams nothing at
\* all, the others three chunks of which the second is empty
HandlerResolution(n) ==
    [Resolution(200, IF n = 1 THEN <<>> ELSE <<<<n>>, empty_content, <<n, n>>>>)
        EXCEPT !.headers = <<"Content-Type:text/plain", "Transfer-Encoding:gzip">>]

\* The Resolution a refusing middleware hands back in Invalid
Denied == Resolution(403, <<<<0>>>>)

\* Middleware closures, each with the Middleware value it returns
Middleware(name, kind, res, status_code) ==
    [name |-> name, returns |-> [kind |-> kind, res |-> res, status_code |-> status_code]]

MiddlewareNext(name) == Middleware(name, "Next", NoResolution, 0)

MiddlewareInvalid(name, res) == Middleware(name, "Invalid", res, 0)

MiddlewareInvalidEmpty(name, status_code) ==
    Middleware(name, "InvalidEmpty", NoResolution, status_code)

\* A request as the client sent it: valid is false when from_stream fails
Request(valid, method, path) == [valid |-> valid, method |-> method, path |-> path]

NoRequest == Request(FALSE, "", <<>>)

NoConn ==
    [pc |-> "none", request |-> NoRequest, cleaned_route |-> <<>>,
     variables |-> <<>>, endpoint |-> NoEndPoint, test_middleware |-> <<>>,
     index |-> 0, invalid_middleware |-> NoResolution, calls |-> <<>>,
     resolved |-> NoResolution, content_stream |-> <<>>, out |-> <<>>,
     error |-> "none", error_callback |-> <<>>]

\* set_request_variables: walk from the matched node to the root, popping
\* the parts of the cleaned route from the back
RECURSIVE set_request_variables(_, _, _, _)
set_request_variables(given_route_parts, current_ref, wild_card_skip, variables) ==
    IF current_ref = NoNode \/ given_route_parts = <<>> THEN variables
    ELSE LET n == Len(given_route_parts)
             route_part == given_route_parts[n]
             rest == SubSeq(given_route_parts, 1, n - 1)
             node_id == IF current_ref = Root THEN <<"/">>
                        ELSE current_ref[Len(current_ref)]
             id == SubSeq(node_id, 2, Len(node_id) - 1)
             is_wild == id = <<"*">>
             value == IF is_wild
                      THEN join(SubSeq(given_route_parts, wild_card_skip + 1, n))
                      ELSE route_part
         IN  IF route_part = <<>>
             THEN set_request_variables(rest, current_ref, wild_card_skip, variables)
             ELSE IF is_variable_id(node_id)
             THEN IF is_wild THEN insert(variables, id, value)
                  ELSE set_request_variables(rest, parent(current_ref), wild_card_skip,
                                             insert(variables, id, value))
             ELSE set_request_variables(rest, parent(current_ref), wild_card_skip,
                                        variables)

\* A client's request arrives on an accepted connection
ConnArrive(request) ==
    /\ conn.pc \in {"none", "returned"}
    /\ conn' = [NoConn EXCEPT !.pc = "from_stream", !.request = request]
    /\ UNCHANGED <<global_middleware, routerVars, lockVars, poolVars, appVars,
                   closeVars, lifeVars, callVars>>

\* Request::from_stream: an error ends the pipeline (the '?'), else the
\* request holds its method and its parsed route
FromStream ==
    /\ conn.pc = "from_stream"
    /\ conn' = IF ~conn.request.valid
               THEN [conn EXCEPT !.pc = "error", !.error = "InvalidData"]
               ELSE [conn EXCEPT !.pc = "route",
                                 !.cleaned_route = parse_route(conn.request.path)]
    /\ UNCHANGED <<global_middleware, routerVars, lockVars, poolVars, appVars,
                   closeVars, lifeVars, callVars>>

\* The endpoint of a request: the matched node's resolution for the method;
\* the missing route's GET resolution when no node matched
find_endpoint(t, missing, route, method) ==
    IF route # NoNode THEN brw_resolution(t, route, method)
    ELSE IF missing = {} THEN NoEndPoint
    ELSE (CHOOSE mr \in missing : TRUE)["GET"]

\* The endpoint lookup, under the router lock; no endpoint ends the
\* pipeline with NoRouteExist
FindEndpoint ==
    /\ conn.pc = "route"
    /\ LET route == get_route(tree, conn.cleaned_route)
           end_point_ref == find_endpoint(tree, missing_route, route, conn.request.method)
           variables ==
               IF route # NoNode
               THEN set_request_variables(split(conn.cleaned_route), route,
                                          Len(route), conn.variables)
               ELSE conn.variables
       IN  conn' = IF end_point_ref = NoEndPoint
                   THEN [conn EXCEPT !.pc = "error", !.error = "NoRouteExist",
                                     !.variables = variables]
                   ELSE [conn EXCEPT !.pc = "middleware", !.endpoint = end_point_ref,
                                     !.variables = variables]
    /\ UNCHANGED <<global_middleware, routerVars, lockVars, poolVars, appVars,
                   closeVars, lifeVars, callVars>>

\* test_middleware: the global middleware, then the endpoint's own
CollectMiddleware ==
    /\ conn.pc = "middleware"
    /\ LET test_middleware ==
               global_middleware \o conn.endpoint.middleware
       IN  conn' = [conn EXCEPT !.test_middleware = test_middleware,
                                !.index = 1,
                                !.pc = IF test_middleware = <<>> THEN "endpoint"
                                       ELSE "call"]
    /\ UNCHANGED <<global_middleware, routerVars, lockVars, poolVars, appVars,
                   closeVars, lifeVars, callVars>>

\* One round of the middleware loop: call the closure, map what it returns
CallMiddleware ==
    /\ conn.pc = "call"
    /\ LET middleware_closure == conn.test_middleware[conn.index]
           returned == middleware_closure.returns
           calls == Append(conn.calls, <<"middleware", middleware_closure.name>>)
           is_last == conn.index = Len(conn.test_middleware)
       IN  conn' =
             CASE returned.kind = "Invalid" ->
                    [conn EXCEPT !.calls = calls, !.pc = "endpoint",
                                 !.invalid_middleware = returned.res]
               [] returned.kind = "InvalidEmpty" ->
                    [conn EXCEPT !.calls = calls, !.pc = "endpoint",
                                 !.invalid_middleware = EmptyResolution(returned.status_code)]
               [] OTHER ->
                    [conn EXCEPT !.calls = calls, !.index = @ + 1,
                                 !.pc = IF is_last THEN "endpoint" ELSE "call"]
    /\ UNCHANGED <<global_middleware, routerVars, lockVars, poolVars, appVars,
                   closeVars, lifeVars, callVars>>

\* Option::unwrap_or with the endpoint call as its argument: the argument is
\* evaluated, and awaited, before unwrap_or looks at the Option
unwrap_or(option, value) == IF option = NoResolution THEN value ELSE option

CallEndpoint ==
    /\ conn.pc = "endpoint"
    /\ conn' = [conn EXCEPT
                  !.calls = Append(@, <<"endpoint", conn.endpoint.resolution>>),
                  !.resolved = unwrap_or(conn.invalid_middleware,
                                         HandlerResolution(conn.endpoint.resolution)),
                  !.pc = "resolve"]
    /\ UNCHANGED <<global_middleware, routerVars, lockVars, poolVars, appVars,
                   closeVars, lifeVars, callVars>>

\* What one write_all of resolve puts on the stream: the header block
\* (its lines), or a frame (its size line and its bytes)
Written(kind, status, lines, len, data) ==
    [kind |-> kind, status |-> status, lines |-> lines, size |-> len,
     data |-> data]

\* Request::take_headers: the response headers the request holds, none
\* after parsing
take_headers(request) == <<>>

\* The header block: the status line from the HTTP/1.1 header ("200 OK"
\* when there is none), the other headers in their order, then the
\* emitter's Transfer-Encoding line and the empty line
header_str(request, resolved) ==
    Written("headers", IF resolved.status = 0 THEN 200 ELSE resolved.status,
            take_headers(request) \o resolved.headers
                \o <<"Transfer-Encoding: chunked">>,
            0, <<>>)

\* The frame of a chunk: its size, its bytes
buffer(chunk) == Written("chunk", 0, <<>>, Len(chunk), chunk)

\* b"0\r\n\r\n": the bytes of a frame of size zero
end_of_stream == Written("chunk", 0, <<>>, 0, <<>>)

\* stream.write_all(..).await?: the bytes are on the stream, or the write
\* fails and resolve returns the error
write_all(written, ok) ==
    IF ok THEN [conn EXCEPT !.out = Append(@, written)]
    ELSE [conn EXCEPT !.pc = "error", !.error = "Io"]

\* resolve, up to the first write: the header block, then get_content
ResolveHeaders ==
    /\ conn.pc = "resolve"
    /\ \E ok \in BOOLEAN :
          conn' = IF ok
                  THEN [write_all(header_str(conn.request, conn.resolved), ok)
                          EXCEPT !.pc = "content",
                                 !.content_stream = conn.resolved.content]
                  ELSE write_all(header_str(conn.request, conn.resolved), ok)
    /\ UNCHANGED <<global_middleware, routerVars, lockVars, poolVars, appVars,
                   closeVars, lifeVars, callVars>>

\* A variant of ResolveChunk that frames the empty chunks as well
ResolveChunkUnskipped ==
    /\ conn.pc = "content"
    /\ conn.content_stream # <<>>
    /\ \E ok \in BOOLEAN :
          conn' = IF ok
                  THEN [write_all(buffer(Head(conn.content_stream)), ok)
                          EXCEPT !.content_stream = Tail(@)]
                  ELSE write_all(buffer(Head(conn.content_stream)), ok)
    /\ UNCHANGED <<global_middleware, routerVars, lockVars, poolVars, appVars,
                   closeVars, lifeVars, callVars>>

\* One round of the content loop: the next chunk of the stream is skipped
\* when it is empty, else written as one frame
ResolveChunk ==
    /\ conn.pc = "content"
    /\ conn.content_stream # <<>>
    /\ LET chunk == Head(conn.content_stream)
       IN  \/ /\ Len(chunk) <= 0
              /\ conn' = [conn EXCEPT !.content_stream = Tail(@)]
           \/ /\ Len(chunk) > 0
              /\ \E ok \in BOOLEAN :
                    conn' = IF ok
                            THEN [write_all(buffer(chunk), ok)
                                    EXCEPT !.content_stream = Tail(@)]
                            ELSE write_all(buffer(chunk), ok)
    /\ UNCHANGED <<global_middleware, routerVars, lockVars, poolVars, appVars,
                   closeVars, lifeVars, callVars>>

\* The stream has ended: the terminator, and resolve returns Ok
ResolveEnd ==
    /\ conn.pc = "content"
    /\ conn.content_stream = <<>>
    /\ \E ok \in BOOLEAN :
          conn' = IF ok
                  THEN [write_all(end_of_stream, ok) EXCEPT !.pc = "done"]
                  ELSE write_all(end_of_stream, ok)
    /\ UNCHANGED <<global_middleware, routerVars, lockVars, poolVars, appVars,
                   closeVars, lifeVars, callVars>>

\* The frames of the chunks of a body that have bytes, in stream order
RECURSIVE frames(_)
frames(content) ==
    IF content = <<>> THEN <<>>
    ELSE IF Len(Head(content)) = 0 THEN frames(Tail(content))
    ELSE <<buffer(Head(content))>> \o frames(Tail(content))

\* The chunked response of a resolution as the client reads it
Response(request, resolved) ==
    <<header_str(request, resolved)>> \o frames(resolved.content)
        \o <<end_of_stream>>

\* A variant of completed_work that keeps the error to itself
completed_work_silent(c) ==
    [NoConn EXCEPT !.pc = "returned", !.error = c.error]

\* The end of the future the accept loop queued for the connection:
\* handle_client_request has returned, error_callback is called with the
\* error when it returned one, and the stream is dropped.  What is kept
\* is what the future returned with and what the callback was given
completed_work(c) ==
    [NoConn EXCEPT !.pc = "returned", !.error = c.error,
                   !.error_callback = IF c.pc = "error"
                                      THEN Append(c.error_callback, c.error)
                                      ELSE c.error_callback]

\* The future ends; the worker drops the connection
ConnEnd ==
    /\ conn.pc \in {"done", "error"}
    /\ conn' = completed_work(conn)
    /\ UNCHANGED <<global_middleware, routerVars, lockVars, poolVars, appVars,
                   closeVars, lifeVars, callVars>>

(***************************************************************************)
(* The Mutexes of the App and the order in which its tasks take them.  A   *)
(* task is a sequence of lock operations read off its code: the pipeline   *)
(* of a connection for GET /wild/asd on a tree that holds /wild/{x}, a     *)
(* call App::add_route("/wild", POST), and the accept loop.                *)
(***************************************************************************)
NoTask == "none"

Tasks == {"conn1", "conn2", "register", "accept"}

Connections == {"conn1", "conn2"}

\* The nodes of the tree: the root, /wild and its variable child {x}
root_node == "node:"

wild_node == "node:wild"

var_node == "node:wild/{x}"

request_lock(c) == "request:" \o c

Mutexes ==
    {"router", root_node, wild_node, var_node, "global_middleware",
     "work_manager", "worker_scale_factor"} \cup {request_lock(c) : c \in Connections}

lock(m) == [op |-> "lock", mutex |-> m]

drop(m) == [op |-> "drop", mutex |-> m]

\* The call of a middleware closure or of the endpoint
call == [op |-> "call", mutex |-> NoTask]

\* get_route("/wild/asd"): the guard of the parent is held while the
\* variable child is locked to test its id
get_route_locks ==
    << lock(root_node), drop(root_node),
       lock(wild_node), lock(var_node), drop(var_node), drop(wild_node) >>

\* get_route("/wild"): only the root is locked
get_route_literal_locks == << lock(root_node), drop(root_node) >>

\* set_request_variables keeping the guard of the request it took to read
\* the route until it returns
set_request_variables_keeping(c) ==
    << lock(request_lock(c)),
       lock(var_node), drop(var_node), lock(wild_node), drop(wild_node),
       lock(root_node), drop(root_node),
       lock(var_node), lock(request_lock(c)), drop(request_lock(c)),
       drop(var_node),
       lock(wild_node), drop(wild_node), drop(request_lock(c)) >>

\* set_request_variables: the request is locked to read its route, every
\* node up to the root is locked in turn, then every node is locked again
\* and the request is locked under the guard of a variable node
set_request_variables_locks(c) ==
    << lock(request_lock(c)), drop(request_lock(c)),
       lock(var_node), drop(var_node), lock(wild_node), drop(wild_node),
       lock(root_node), drop(root_node),
       lock(var_node), lock(request_lock(c)), drop(request_lock(c)),
       drop(var_node),
       lock(wild_node), drop(wild_node) >>

\* What the middleware and the endpoint of the route do with the clones
\* they are given: the middleware reads the request, the endpoint takes the
\* router
middleware_locks(c) == << call, lock(request_lock(c)), drop(request_lock(c)) >>

endpoint_locks(c) ==
    << call, lock("router"), lock(root_node), drop(root_node), drop("router") >>

\* handle_client_request dropping the guard of the router on return
handle_client_request_holding(c) ==
    << lock(request_lock(c)), drop(request_lock(c)), lock("router") >>
    \o get_route_locks \o set_request_variables_locks(c)
    \o << lock(var_node), drop(var_node),
          lock("global_middleware"), drop("global_middleware") >>
    \o middleware_locks(c)
    \o << drop("router") >>
    \o endpoint_locks(c)
    \o << lock(request_lock(c)), drop(request_lock(c)) >>

handle_client_request_locks(c) ==
    << lock(request_lock(c)), drop(request_lock(c)), lock("router") >>
    \o get_route_locks \o set_request_variables_locks(c)
    \o << lock(var_node), drop(var_node), drop("router"),
          lock("global_middleware"), drop("global_middleware") >>
    \o middleware_locks(c) \o endpoint_locks(c)
    \o << lock(request_lock(c)), drop(request_lock(c)) >>

\* RouteTree::add_route("/wild", POST): the parent is locked to look for the
\* child, and again while the resolution is inserted into the child
add_route_locks ==
    << lock(root_node), drop(root_node), lock(root_node), lock(wild_node), drop(wild_node), drop(root_node) >>

\* App::add_route("/wild", POST)
app_add_route_locks ==
    << lock("router") >> \o get_route_literal_locks
    \o << lock(wild_node), drop(wild_node) >> \o add_route_locks \o << drop("router") >>

\* One round of the accept loop that found the queue Blocked
accept_locks ==
    << lock("work_manager"), lock("worker_scale_factor"),
       drop("worker_scale_factor"), drop("work_manager") >>

Program(t) ==
    CASE t \in Connections -> handle_client_request_locks(t)
      [] t = "register" -> app_add_route_locks
      [] t = "accept" -> accept_locks

(***************************************************************************)
(* The App: Init is the state App::bind returns.                           *)
(***************************************************************************)
Init ==
    /\ work = <<>>
    /\ permit = FALSE
    /\ waiters = <<>>
    /\ fut = [w \in WorkerIds |-> "init"]
    /\ wpc = create_workers([w \in WorkerIds |-> "none"], 0, initial_workers_size)
    /\ closed = [w \in WorkerIds |-> FALSE]
    /\ func = [w \in WorkerIds |-> NoWork]
    /\ size = initial_workers_size
    /\ workers = initial_workers_size
    /\ chan = <<>>
    /\ started = [f \in Futures |-> 0]
    /\ sent = [f \in Futures |-> 0]
    /\ queued = [f \in Futures |-> 0]
    /\ apc = "none"
    /\ current_work = NoWork
    /\ accepted = 0
    /\ listener = TRUE
    /\ app_task = FALSE
    /\ shutdown = FALSE
    /\ shutdown_rx = FALSE
    /\ close_pc = "idle"
    /\ worker_scale_factor \in 0..MaxScaleFactor
    /\ cpc = [w \in WorkerIds |-> "idle"]
    /\ cfw = "idle"
    /\ tree = new_tree
    /\ missing_route = {}
    /\ registered = {}
    /\ last_op = NoCall
    /\ global_middleware = <<>>
    /\ conn = NoConn
    /\ app_call = NoAppCall
    /\ dropped = FALSE
    /\ driver_tasks = 0
    /\ channels = 0
    /\ worker_call = start_workers(wpc)
    /\ held = [l \in Mutexes |-> NoTask]
    /\ task_pc = [t \in Tasks |-> 1]

Next ==
    \/ AppStart
    \/ AppClose
    \/ AppCloseReturn
    \/ AppCloseUnchecked
    \/ AppDrop
    \/ DriverShutdown
    \/ DriverAccept
    \/ DriverQueueWork
    \/ DriverScale
    \/ DriverYield
    \/ \E w \in WorkerIds : WorkerStep(w)
    \/ Consume

Spec == Init /\ [][Next]_vars

(***************************************************************************)
(* The App under the scheduling tokio gives: every spawned task that can   *)
(* run is run, futures resolve, the result channel is drained.  Accepting  *)
(* a client and the calls of start and close are the environment's.        *)
(***************************************************************************)
WorkerFairness ==
    /\ \A w \in WorkerIds : WF_vars(WorkerStep(w))
    /\ WF_vars(Consume)

FairSpec ==
    /\ Spec
    /\ WorkerFairness
    /\ WF_vars(DriverQueueWork) /\ WF_vars(DriverScale) /\ WF_vars(DriverYield)
    /\ WF_vars(DriverShutdown)

\* The same with the caller of close polled: its task.await returns once
\* the driver task has ended
FairSpecClose == FairSpec /\ WF_vars(AppCloseReturn)

(***************************************************************************)
(* A WorkManager used directly: its owner submits futures with the         *)
(* Blocked / scale / retry protocol and may call close_and_finish_work.    *)
(***************************************************************************)
InitManager ==
    /\ work = <<>>
    /\ permit = FALSE
    /\ waiters = <<>>
    /\ fut = [w \in WorkerIds |-> "init"]
    /\ wpc = create_workers([w \in WorkerIds |-> "none"], 0, initial_workers_size)
    /\ closed = [w \in WorkerIds |-> FALSE]
    /\ func = [w \in WorkerIds |-> NoWork]
    /\ size = initial_workers_size
    /\ workers = initial_workers_size
    /\ chan = <<>>
    /\ started = [f \in Futures |-> 0]
    /\ sent = [f \in Futures |-> 0]
    /\ queued = [f \in Futures |-> 0]
    /\ apc = "select"
    /\ current_work = NoWork
    /\ accepted = 0
    /\ listener = FALSE
    /\ app_task = FALSE
    /\ shutdown = FALSE
    /\ shutdown_rx = FALSE
    /\ close_pc = "idle"
    /\ worker_scale_factor \in 0..MaxScaleFactor
    /\ cpc = [w \in WorkerIds |-> "idle"]
    /\ cfw = "idle"
    /\ tree = new_tree
    /\ missing_route = {}
    /\ registered = {}
    /\ last_op = NoCall
    /\ global_middleware = <<>>
    /\ conn = NoConn
    /\ app_call = NoAppCall
    /\ dropped = FALSE
    /\ driver_tasks = 0
    /\ channels = 0
    /\ worker_call = start_workers(wpc)
    /\ held = [l \in Mutexes |-> NoTask]
    /\ task_pc = [t \in Tasks |-> 1]

CloseStep(w) ==
    \/ WorkerCloseFlag(w)
    \/ WorkerCloseNotify(w)
    \/ WorkerCloseJoin(w)

NextManager ==
    \/ ClientSubmit
    \/ DriverQueueWork
    \/ DriverScale
    \/ DriverYield
    \/ \E w \in WorkerIds : WorkerStep(w)
    \/ Consume
    \/ CloseAndFinishWork
    \/ \E w \in WorkerIds : CloseStep(w)
    \/ CloseAndFinishWorkReturn

SpecManager == InitManager /\ [][NextManager]_vars

FairSpecManager ==
    /\ SpecManager
    /\ WorkerFairness
    /\ \A w \in WorkerIds : WF_vars(CloseStep(w))
    /\ WF_vars(CloseAndFinishWorkReturn)
    /\ WF_vars(DriverQueueWork) /\ WF_vars(DriverScale) /\ WF_vars(DriverYield)

(***************************************************************************)
(* A pool built by hand: Workers started on one shared Queue, futures      *)
(* submitted through Queue::queue, single Workers closed by Worker::close. *)
(***************************************************************************)
InitWorkers ==
    /\ work = <<>>
    /\ permit = FALSE
    /\ waiters = <<>>
    /\ fut = [w \in WorkerIds |-> "init"]
    /\ wpc = create_workers([w \in WorkerIds |-> "none"], 0, HandBuiltWorkers)
    /\ closed = [w \in WorkerIds |-> FALSE]
    /\ func = [w \in WorkerIds |-> NoWork]
    /\ size = HandBuiltWorkers
    /\ workers = HandBuiltWorkers
    /\ chan = <<>>
    /\ started = [f \in Futures |-> 0]
    /\ sent = [f \in Futures |-> 0]
    /\ queued = [f \in Futures |-> 0]
    /\ apc = "select"
    /\ current_work = NoWork
    /\ accepted = 0
    /\ listener = FALSE
    /\ app_task = FALSE
    /\ shutdown = FALSE
    /\ shutdown_rx = FALSE
    /\ close_pc = "idle"
    /\ worker_scale_factor = 1
    /\ cpc = [w \in WorkerIds |-> "idle"]
    /\ cfw = "idle"
    /\ tree = new_tree
    /\ missing_route = {}
    /\ registered = {}
    /\ last_op = NoCall
    /\ global_middleware = <<>>
    /\ conn = NoConn
    /\ app_call = NoAppCall
    /\ dropped = FALSE
    /\ driver_tasks = 0
    /\ channels = 0
    /\ worker_call = start_workers(wpc)
    /\ held = [l \in Mutexes |-> NoTask]
    /\ task_pc = [t \in Tasks |-> 1]

NextWorkers ==
    \/ ClientSubmit
    \/ ClientQueue
    \/ \E w \in WorkerIds : WorkerStep(w)
    \/ Consume
    \/ \E w \in WorkerIds : WorkerCloseCall(w)
    \/ \E w \in WorkerIds : CloseStep(w)

SpecWorkers == InitWorkers /\ [][NextWorkers]_vars

FairSpecWorkers ==
    /\ SpecWorkers
    /\ WorkerFairness
    /\ \A w \in WorkerIds : WF_vars(CloseStep(w))
    /\ WF_vars(ClientQueue)

(***************************************************************************)
(* Workers made with Worker::new on one shared Queue: their owner calls    *)
(* start_worker and close on them in any order and any number of times,    *)
(* and submits futures through Queue::queue.                               *)
(***************************************************************************)
InitWorkerCalls ==
    /\ work = <<>>
    /\ permit = FALSE
    /\ waiters = <<>>
    /\ fut = [w \in WorkerIds |-> "init"]
    /\ wpc = [w \in WorkerIds |-> "none"]
    /\ closed = [w \in WorkerIds |-> FALSE]
    /\ func = [w \in WorkerIds |-> NoWork]
    /\ size = HandBuiltWorkers
    /\ workers = HandBuiltWorkers
    /\ chan = <<>>
    /\ started = [f \in Futures |-> 0]
    /\ sent = [f \in Futures |-> 0]
    /\ queued = [f \in Futures |-> 0]
    /\ apc = "select"
    /\ current_work = NoWork
    /\ accepted = 0
    /\ listener = FALSE
    /\ app_task = FALSE
    /\ shutdown = FALSE
    /\ shutdown_rx = FALSE
    /\ close_pc = "idle"
    /\ worker_scale_factor = 1
    /\ cpc = [w \in WorkerIds |-> "idle"]
    /\ cfw = "idle"
    /\ tree = new_tree
    /\ missing_route = {}
    /\ registered = {}
    /\ last_op = NoCall
    /\ global_middleware = <<>>
    /\ conn = NoConn
    /\ app_call = NoAppCall
    /\ dropped = FALSE
    /\ driver_tasks = 0
    /\ channels = 0
    /\ worker_call = start_workers(wpc)
    /\ held = [l \in Mutexes |-> NoTask]
    /\ task_pc = [t \in Tasks |-> 1]

NextWorkerCalls ==
    \/ \E w \in WorkerIds : StartWorker(w)
    \/ \E w \in WorkerIds : WorkerClose(w)
    \/ \E w \in WorkerIds : CloseStep(w)
    \/ \E w \in WorkerIds : WorkerStep(w)
    \/ ClientSubmit
    \/ ClientQueue
    \/ Consume

SpecWorkerCalls == InitWorkerCalls /\ [][NextWorkerCalls]_vars

(***************************************************************************)
(* The router as an application drives it: registrations through           *)
(* App::add_route, App::add_or_change_route and add_missing_route.         *)
(***************************************************************************)
\* The id of a wildcard node and of a variable node
Wild == <<"{", "*", "}">>

Var == <<"{", "x", "}">>

Var2 == <<"{", "y", "}">>

\* "/wild/{*}", "/wild/asd", "/wild/asd/", "//wild//asd", "wild/asd",
\* "/wild/{x}", "/wild/{x}/deep", "/wild/{x}/deep/{y}",
\* "/wild/{x}/deep/{*}", "/wild/{*}/deep", "/" and the empty route
RouterRoutes ==
    { <<"/", "wild", "/">> \o Wild,
      <<"/", "wild", "/", "asd">>,
      <<"/", "wild", "/", "asd", "/">>,
      <<"/", "/", "wild", "/", "/", "asd">>,
      <<"wild", "/", "asd">>,
      <<"/", "wild", "/">> \o Var,
      <<"/", "wild", "/">> \o Var \o <<"/", "deep">>,
      <<"/", "wild", "/">> \o Var \o <<"/", "deep", "/">> \o Var2,
      <<"/", "wild", "/">> \o Var \o <<"/", "deep", "/">> \o Wild,
      <<"/", "wild", "/">> \o Wild \o <<"/", "deep">>,
      <<"/">>,
      <<>> }

\* The paths requests ask for: "/wild/asd", "/wild/asd/deep", "/wild/deep",
\* "/deep" and "/"
RequestPaths ==
    { <<"/", "wild", "/", "asd">>,
      <<"/", "wild", "/", "asd", "/", "deep">>,
      <<"/", "wild", "/", "deep">>,
      <<"/", "deep">>,
      <<"/">> }

NextRouter ==
    \/ \E route \in RouterRoutes, method \in Methods :
            AppAddRoute(route, method, NoMiddleware)
    \/ \E route \in RouterRoutes, method \in Methods :
            AppAddOrChangeRoute(route, method, NoMiddleware)
    \/ AddMissingRoute

SpecRouter == Init /\ [][NextRouter]_vars

(***************************************************************************)
(* The pipeline of one connection at a time, on an App whose routes, global *)
(* middleware and missing route are registered while it serves.            *)
(***************************************************************************)
\* "/wild/{*}" and "/wild/asd"
PipelineRoutes ==
    { <<"/", "wild", "/">> \o Wild,
      <<"/", "wild", "/", "asd">> }

\* The middleware an endpoint is registered with: none, a chain that lets
\* the request through, a chain whose second closure refuses with a bare status, a chain that refuses with a
\* Resolution of its own
EndpointMiddleware ==
    { NoMiddleware,
      <<MiddlewareNext("r1"), MiddlewareNext("r2")>>,
      <<MiddlewareNext("M1"), MiddlewareInvalidEmpty("M2", 401), MiddlewareNext("M3")>>,
      <<MiddlewareInvalid("R1", Denied), MiddlewareNext("R2")>> }

GlobalMiddleware == {MiddlewareNext("G1"), MiddlewareInvalidEmpty("G2", 401)}

Requests ==
    {Request(TRUE, method, path) : method \in Methods,
                                   path \in {p \in RequestPaths : Len(p) > 1}}
        \cup {Request(FALSE, "", <<>>)}

ConnStep ==
    \/ FromStream
    \/ FindEndpoint
    \/ CollectMiddleware
    \/ CallMiddleware
    \/ CallEndpoint
    \/ ResolveHeaders
    \/ ResolveChunk
    \/ ResolveEnd
    \/ ConnEnd

NextPipeline ==
    \/ \E route \in PipelineRoutes, method \in Methods,
          middleware \in EndpointMiddleware :
            AppAddRoute(route, method, middleware)
    \/ AddMissingRoute
    \/ \E closure \in GlobalMiddleware : UseMiddleware(closure)
    \/ \E request \in Requests : ConnArrive(request)
    \/ ConnStep

SpecPipeline == Init /\ [][NextPipeline]_vars

(***************************************************************************)
(* The App serving connections: the accept loop queues one future per      *)
(* accepted client, the worker of the pool runs them one after the other.  *)
(* The future is the pipeline above followed by the error callback.  The   *)
(* App is bound with scale factor 1, so that it keeps its one worker, and  *)
(* its routes are registered before start.                                 *)
(***************************************************************************)
\* "/wild/asd"
ServedRoute == <<"/", "wild", "/", "asd">>

\* A request that cannot be parsed, one for the registered route and one
\* for a method the route has no endpoint for
ServedRequests ==
    {Request(FALSE, "", <<>>), Request(TRUE, "GET", ServedRoute),
     Request(TRUE, "POST", ServedRoute)}

\* The worker polls the future it dequeued: the pipeline begins with the
\* client's request
CurrentWorkPoll(w, request) ==
    /\ Live(w) /\ wpc[w] = "running"
    /\ ConnArrive(request)

\* The future resolves: func.await of the worker returns
CurrentWorkFinish(w) ==
    /\ Live(w) /\ wpc[w] = "running"
    /\ conn.pc \in {"done", "error"}
    /\ conn' = completed_work(conn)
    /\ wpc' = [wpc EXCEPT ![w] = "send"]
    /\ UNCHANGED <<work, permit, waiters, fut, closed, func, size, workers,
                   chan, started, sent, queued, appVars, closeVars>>
    /\ UNCHANGED <<global_middleware, routerVars, lockVars, lifeVars, callVars>>

ServeWorkerStep(w) ==
    \/ WorkerCheck(w)
    \/ WorkerEnable(w)
    \/ WorkerTryDeque(w)
    \/ WorkerAwait(w)
    \/ WorkerPoll(w)
    \/ CurrentWorkFinish(w)
    \/ WorkerSend(w)

HandleClientRequest ==
    \/ FromStream
    \/ FindEndpoint
    \/ CollectMiddleware
    \/ CallMiddleware
    \/ CallEndpoint
    \/ ResolveHeaders
    \/ ResolveChunk
    \/ ResolveEnd

InitServe == Init /\ worker_scale_factor = 1

NextServe ==
    \/ /\ apc = "none"
       /\ \E method \in Methods,
             middleware \in {<<MiddlewareNext("r1")>>,
                             <<MiddlewareInvalidEmpty("M2", 401)>>} :
             AppAddRoute(ServedRoute, method, middleware)
    \/ AppStart
    \/ DriverAccept
    \/ DriverQueueWork
    \/ DriverScale
    \/ DriverYield
    \/ \E w \in WorkerIds : ServeWorkerStep(w)
    \/ \E w \in WorkerIds, request \in ServedRequests : CurrentWorkPoll(w, request)
    \/ HandleClientRequest
    \/ Consume

SpecServe == InitServe /\ [][NextServe]_vars

\* Every worker task that can run is run and the result channel is
\* drained; nothing is assumed of the clients or of the accept loop
FairSpecServe ==
    /\ SpecServe
    /\ \A w \in WorkerIds : WF_vars(ServeWorkerStep(w))
    /\ WF_vars(Consume)

(***************************************************************************)
(* Properties of the worker pool                                           *)
(***************************************************************************)
Holders(f) == {w \in WorkerIds : func[w] = f}

\* The places a future is in: held by the submitter, in the backlog, held
\* by a worker, or resolved with its result sent.
Places(f) ==
    (IF current_work = f THEN 1 ELSE 0) + Count(work, f)
        + Cardinality(Holders(f)) + sent[f]

\* C2: a future submitted to the pool is awaited by at most one worker and
\* at most once: no two workers hold the same queued item, an item a worker
\* holds is no longer in the backlog, a future given back by Blocked is not
\* in the backlog, and no future is started twice.
C2_AtMostOnce ==
    \A f \in Futures :
        /\ started[f] <= 1
        /\ Cardinality(Holders(f)) <= 1
        /\ Holders(f) # {} => Count(work, f) = 0
        /\ current_work = f => Count(work, f) = 0 /\ Holders(f) = {}
        /\ Count(work, f) <= 1

\* Two workers are inside try_deque at the same time with two items in the
\* backlog, after a Blocked round has scaled the pool.
C2_Witness ==
    /\ Len(work) = 2
    /\ size > initial_workers_size
    /\ \E v, w \in WorkerIds : v # w /\ wpc[v] = "try" /\ wpc[w] = "try"

\* C3: every future placed in the work queue is eventually dequeued and
\* awaited and its result is sent exactly once, provided a started worker
\* that is not closed remains, futures terminate and the receiver drains.
C3_EveryQueuedFutureIsServed ==
    /\ [](\A f \in Futures : sent[f] <= 1)
    /\ \A f \in Futures : (Count(work, f) > 0) ~> (sent[f] = 1)

\* C7: close_and_finish_work eventually returns, and when it has returned
\* every worker's driver task has exited.
C7_CloseAndFinishWorkReturns ==
    /\ [][cfw = "closing" /\ cfw' = "returned" =>
              \A w \in 1..workers : wpc'[w] = "exited"]_vars
    /\ (cfw = "closing") ~> (cfw = "returned")

\* An accepted connection's future is in exactly one place and was pushed
\* to the backlog once as soon as the accept loop let go of it.
NeverDropped ==
    \A f \in 1..accepted :
        /\ Places(f) = 1
        /\ queued[f] = (IF current_work = f THEN 0 ELSE 1)

\* C8: every connection the driver task accepts is submitted to the
\* WorkManager: its future is never dropped, is queued at most once, and
\* the retry loop, scaling the pool after each Blocked, eventually ends with
\* the future queued.
C8_EveryConnectionQueued ==
    /\ []NeverDropped
    /\ \A f \in Futures : (current_work = f) ~> (queued[f] = 1)

C4_AddRouteThenGetRoute ==
    (last_op.op = "add_or_change_route" /\ last_op.result = "Ok") =>
        LET node == get_route(tree, last_op.route)
        IN  /\ node # NoNode
            /\ brw_resolution(tree, node, last_op.method) = last_op.endpoint

\* An endpoint is registered for exactly that path and method: the node at
\* the end of the path's own segments holds one for the method
RegisteredExactly(t, route, method) ==
    /\ Segments(route) \in DOMAIN t
    /\ t[Segments(route)][method] # NoEndPoint

\* C5: the strict App.add_route fails with Exist if and only if an endpoint
\* was already registered for exactly that path and method, whatever
\* variable or wildcard routes exist, and a call that fails with Exist
\* leaves the route tree unchanged.
C5_ExistIffRegistered ==
    [][(last_op'.n # last_op.n /\ last_op'.op = "add_route") =>
          /\ (last_op'.result = "Exist") <=>
                 RegisteredExactly(tree, last_op'.route, last_op'.method)
          /\ last_op'.result = "Exist" => tree' = tree]_vars

\* The endpoint a request for that path and method is served with
Resolves(path, method) ==
    find_endpoint(tree, missing_route, get_route(tree, parse_route(path)), method)

\* C10: with GET /wild/{*} and POST /wild/asd both registered, the request
\* POST /wild/asd resolves to the literal endpoint and the request
\* GET /wild/asd/deep resolves to the wildcard endpoint.
C10_LiteralBeatsWildcard ==
    \A w, l \in registered :
        (/\ w.route = <<"/", "wild", "/">> \o Wild /\ w.method = "GET"
         /\ l.route = <<"/", "wild", "/", "asd">> /\ l.method = "POST")
        => /\ Resolves(<<"/", "wild", "/", "asd">>, "POST") = l.endpoint
           /\ Resolves(<<"/", "wild", "/", "asd", "/", "deep">>, "GET") = w.endpoint

(***************************************************************************)
(* Properties of the connection pipeline                                   *)
(***************************************************************************)
\* C1: when a middleware of the chain returns Invalid(r) or
\* InvalidEmpty(code), no later middleware and not the endpoint's resolution
\* function is invoked for the request, and the response emitted is r,
\* respectively an empty-body response with that status.
C1_MiddlewareShortCircuit ==
    conn.invalid_middleware # NoResolution =>
        /\ conn.calls = [i \in 1..conn.index |->
                            <<"middleware", conn.test_middleware[i].name>>]
        /\ conn.pc = "done" =>
              conn.out = Response(conn.request, conn.invalid_middleware)

\* C6: when no handler matches a request (no node for the path, or the
\* matched node has no endpoint for the method) the pipeline serves it with
\* the missing-route endpoint if one is registered; it fails with
\* NoRouteExist only when none is registered.
C6_MissingRouteFallback ==
    [][(conn.pc = "route" /\ conn'.pc # "route") =>
          LET route == get_route(tree, conn.cleaned_route)
              matched == /\ route # NoNode
                         /\ brw_resolution(tree, route, conn.request.method) # NoEndPoint
          IN  ~matched =>
                IF missing_route # {}
                THEN /\ conn'.pc = "middleware"
                     /\ conn'.endpoint = (CHOOSE mr \in missing_route : TRUE)["GET"]
                ELSE /\ conn'.pc = "error"
                     /\ conn'.error = "NoRouteExist"]_vars

(***************************************************************************)
(* Properties of variable binding                                          *)
(***************************************************************************)
\* The node the pipeline matches for a request path
Matched(path) == get_route(tree, parse_route(path))

\* The variable map the pipeline leaves in the request of that path
Variables(path) ==
    IF Matched(path) = NoNode THEN <<>>
    ELSE set_request_variables(split(parse_route(path)), Matched(path),
                               Len(Matched(path)), <<>>)

\* The variable map binds that name to that value
Binds(variables, name, value) ==
    name \in DOMAIN variables /\ variables[name] = value

\* The wildcard node below /wild
WildNode == << <<"wild">>, Wild >>

\* C11: with /wild/{*} in the tree, each of the requests /wild/deep,
\* /wild/deep/asd/deep and /wild/ matches the wildcard node, and the
\* variable * is bound to deep, deep/asd/deep and the empty string: the
\* request's segments after the wildcard's parent path, joined with '/'.
C11_WildcardAbsorbs ==
    WildNode \in DOMAIN tree =>
        \A rest \in { <<"deep">>, <<"deep", "/", "asd", "/", "deep">>, <<>> } :
            LET path == <<"/", "wild", "/">> \o rest
            IN  /\ Matched(path) = WildNode
                /\ Binds(Variables(path), <<"*">>, rest)

\* The variable node and the literal node below /wild
VarNode == << <<"wild">>, Var >>

LiteralNode == << <<"wild">>, <<"asd">> >>

\* C12: once /wild/{x} and /wild/asd have both been added, in either order,
\* a lookup of /wild/asd returns the literal node, never the variable node,
\* and a lookup of /wild/deep returns the variable node, with x bound to
\* deep.
C12_LiteralBeforeVariable ==
    (VarNode \in DOMAIN tree /\ LiteralNode \in DOMAIN tree) =>
        /\ Matched(<<"/", "wild", "/", "asd">>) = LiteralNode
        /\ Matched(<<"/", "wild", "/", "deep">>) = VarNode
        /\ Binds(Variables(<<"/", "wild", "/", "deep">>), <<"x">>, <<"deep">>)

\* Both routes were added, the variable route after the literal one
C12_Witness ==
    /\ VarNode \in DOMAIN tree /\ LiteralNode \in DOMAIN tree
    /\ last_op.n = 2 /\ last_op.result = "Ok"
    /\ last_op.route = <<"/", "wild", "/">> \o Var

\* The segments a request puts where a route has a named variable, by
\* position, and where it has the wildcard
SegmentAt(i) == <<"v1", "v2", "v3", "v4">>[i]

WildSegments == <<"r1", "/", "r2">>

\* A request path that fits the route of a node: the literal ids as they
\* are, a segment of its own for each named variable, two segments for the
\* wildcard
RECURSIVE RequestFor(_, _)
RequestFor(node, i) ==
    IF i > Len(node) THEN <<>>
    ELSE <<"/">> \o (IF node[i] = Wild THEN WildSegments
                     ELSE IF is_variable_id(node[i]) THEN <<SegmentAt(i)>>
                     ELSE node[i])
             \o RequestFor(node, i + 1)

\* The name of a variable id: {name} without its braces
NameOf(id) == SubSeq(id, 2, Len(id) - 1)

\* C13: after the pipeline bound the variables of a matched route, every
\* variable segment {name} on the path from the root to the matched node
\* has the entry name -> the request's segment at that position, and a
\* wildcard is bound under the key *; also with several named variables in
\* one route and with named variables before a wildcard.
C13_EveryVariableBound ==
    \A node \in DOMAIN tree :
        Matched(RequestFor(node, 1)) = node =>
            \A i \in 1..Len(node) :
                is_variable_id(node[i]) =>
                    Binds(Variables(RequestFor(node, 1)), NameOf(node[i]),
                          IF node[i] = Wild THEN WildSegments ELSE <<SegmentAt(i)>>)

(***************************************************************************)
(* Properties of the order of the pipeline                                 *)
(***************************************************************************)
\* The calls of the first n closures of test_middleware, in order
MiddlewareCalls(n) ==
    [i \in 1..n |-> <<"middleware", conn.test_middleware[i].name>>]

EndpointCall == <<"endpoint", conn.endpoint.resolution>>

\* The endpoint's resolution function was invoked for the request
EndpointCalled ==
    conn.calls # <<>> /\ conn.calls[Len(conn.calls)] = EndpointCall

\* The global middleware come first, in registration order, then the
\* endpoint's own; they are called one after the other in that order, and
\* nothing is emitted before the endpoint finished
PipelineOrder ==
    conn.pc \in {"call", "endpoint", "resolve", "content", "done"} =>
        /\ \E n \in 0..Len(global_middleware) :
              conn.test_middleware =
                  SubSeq(global_middleware, 1, n) \o conn.endpoint.middleware
        /\ \E n \in 0..Len(conn.test_middleware) :
              \/ conn.calls = MiddlewareCalls(n)
              \/ conn.calls = MiddlewareCalls(n) \o <<EndpointCall>>
        /\ conn.out # <<>> => EndpointCalled

\* C14: for each connection the global middleware run first in registration
\* order, then the endpoint's own in insertion order, one after the other;
\* the endpoint's resolution function starts only after all of them
\* returned Next, and emission starts only after the endpoint finished.
C14_MiddlewareThenEndpointThenEmit ==
    /\ PipelineOrder
    /\ EndpointCalled =>
          /\ conn.calls = MiddlewareCalls(Len(conn.test_middleware)) \o <<EndpointCall>>
          /\ \A i \in 1..Len(conn.test_middleware) :
                conn.test_middleware[i].returns.kind = "Next"

(***************************************************************************)
(* Properties of the App's lifecycle                                       *)
(***************************************************************************)
\* A step is the return of a call of op
Returned(op) == app_call' # app_call /\ app_call'.op = op /\ app_call'.result # ""

\* Constructed until start spawned the driver task, then what state() says
Phase == IF driver_tasks = 0 THEN "Constructed" ELSE state

\* What a call that fails leaves alone: the fields of the App and the
\* driver task
AppUnchanged ==
    UNCHANGED <<listener, app_task, shutdown, shutdown_rx, apc, driver_tasks,
                channels, current_work, accepted, poolVars>>

\* C15: start returns Ok(Running) and spawns the driver task only on an App
\* that was never started; on a running App it returns Err(Running) and
\* spawns no second driver and creates no second shutdown channel; on an App
\* started and then closed it returns Err(Closed); the lifecycle is
\* Constructed -> Running -> Closed and at most one driver task ever exists.
C15_StartOnce ==
    /\ [][Returned("start") =>
            /\ Phase = "Constructed" =>
                  /\ app_call'.result = "Ok(Running)"
                  /\ driver_tasks' = 1 /\ channels' = 1 /\ apc' = "select"
                  /\ state' = "Running"
            /\ Phase = "Running" =>
                  app_call'.result = "Err(Running)" /\ AppUnchanged
            /\ Phase = "Closed" =>
                  app_call'.result = "Err(Closed)" /\ AppUnchanged]_vars
    /\ [][Phase' # Phase =>
            <<Phase, Phase'>> \in { <<"Constructed", "Running">>,
                                    <<"Running", "Closed">> }]_vars
    /\ [](driver_tasks <= 1 /\ channels <= 1)

\* start was refused on an App that had been started and closed
C15_Witness ==
    /\ app_call = AppCall(app_call.n, "start", "Err(Closed)")
    /\ driver_tasks = 1 /\ close_pc = "closed"

\* C16: close on a running App returns Ok(Closed); every later call of close
\* or close_unchecked returns Err(Closed) and changes nothing, and state()
\* reports Closed from then on.
C16_CloseOnce ==
    /\ [][app_call' # app_call /\ app_call'.op = "close" /\ state = "Running" =>
            close_pc' = "join" /\ app_call'.result = ""]_vars
    /\ [][close_pc = "join" /\ close_pc' # "join" =>
            app_call' = AppCall(app_call.n, "close", "Ok(Closed)")]_vars
    /\ [][close_pc = "closed" /\ (Returned("close") \/ Returned("close_unchecked")) =>
            app_call'.result = "Err(Closed)" /\ AppUnchanged]_vars
    /\ [](close_pc = "closed" => state = "Closed")

\* close_unchecked was refused after close had returned Ok(Closed)
C16_Witness ==
    /\ close_pc = "closed"
    /\ app_call = AppCall(app_call.n, "close_unchecked", "Err(Closed)")

\* C17: dropping a running App stops it: after the drop the driver task
\* eventually leaves its accept loop, and no further connection is accepted.
C17_DropStops ==
    /\ (dropped /\ driver_tasks = 1) ~> DriverEnded
    /\ [][dropped /\ DriverEnded => accepted' = accepted]_vars

\* The same for an App whose scale factor is at least 1
DropStopsScaled ==
    (dropped /\ driver_tasks = 1 /\ worker_scale_factor >= 1) ~> DriverEnded

\* C18: once close has returned Ok(Closed) the driver task has exited: no
\* connection is accepted and no pipeline future is submitted to the
\* WorkManager afterwards.
C18_ClosedMeansDriverExited ==
    /\ [](close_pc = "closed" => DriverEnded)
    /\ [][close_pc = "closed" =>
            /\ accepted' = accepted
            /\ current_work' = current_work
            /\ queued' = queued
            /\ Len(work') <= Len(work)]_vars

\* close has returned after the driver accepted connections, one of whose
\* futures is still in the backlog
C18_Witness ==
    close_pc = "closed" /\ apc = "exited" /\ accepted > 0 /\ work # <<>>

\* The future is in the backlog or held by a worker
InFlight(f) == Count(work, f) > 0 \/ Holders(f) # {}

\* C19: close does not cancel work: the futures queued or running when
\* close was called are still executed to completion by the workers, and
\* their results are sent.
C19_CloseCancelsNothing ==
    /\ [][app_call' # app_call /\ app_call'.op = "close" =>
            UNCHANGED poolVars]_vars
    /\ [][close_pc # "idle" =>
            \A f \in Futures : InFlight(f) => InFlight(f)' \/ sent'[f] = 1]_vars
    /\ \A f \in Futures : (close_pc # "idle" /\ InFlight(f)) ~> (sent[f] = 1)

\* close was called with one future in the backlog and another one running
C19_Witness ==
    /\ close_pc = "join"
    /\ app_call = AppCall(app_call.n, "close", "")
    /\ \E f, g \in Futures : Count(work, f) > 0 /\ Holders(g) # {}

(***************************************************************************)
(* Properties of the calls on one Worker                                   *)
(***************************************************************************)
\* The step is the return of a start_worker call on w
StartReturned(w) == worker_call'[w].n # worker_call[w].n

\* The step is where a close call on w fails or gets past its checks
CloseDecided(w) == cpc[w] = "called" /\ cpc'[w] # "called"

\* The task handle and the close flag of w, and the number of tasks spawned
\* for it, are what they were
WorkerUnchanged(w) ==
    /\ wpc'[w] = wpc[w]
    /\ closed'[w] = closed[w]
    /\ worker_call'[w].tasks = worker_call[w].tasks

\* C20: start_worker on a worker that was started before, closed since or
\* not, fails with AlreadyRunning and spawns no second task; close fails
\* with NoTaskRunning on a worker never started and with AlreadyClosed on a
\* worker an earlier close has closed; a failed call leaves the task handle
\* and the close flag unchanged.
C20_WorkerCallErrors ==
    /\ [][\A w \in WorkerIds : StartReturned(w) =>
            IF worker_call[w].tasks > 0
            THEN worker_call'[w].result = "AlreadyRunning" /\ WorkerUnchanged(w)
            ELSE worker_call'[w].result = "Ok"]_vars
    /\ [][\A w \in WorkerIds : CloseDecided(w) =>
            /\ worker_call[w].tasks = 0 => cpc'[w] = "NoTaskRunning"
            /\ worker_call[w].tasks > 0 /\ worker_call[w].closes > 0 =>
                  cpc'[w] = "AlreadyClosed"
            /\ cpc'[w] \in CloseErrors => WorkerUnchanged(w)]_vars
    /\ [](\A w \in WorkerIds : worker_call[w].tasks <= 1)

\* One worker was closed and then refused a start_worker and a second
\* close; on the other, never started, close failed
C20_Witness ==
    \E v, w \in WorkerIds :
        /\ worker_call[v].result = "AlreadyRunning" /\ worker_call[v].closes = 1
        /\ cpc[v] = "AlreadyClosed"
        /\ cpc[w] = "NoTaskRunning" /\ worker_call[w].tasks = 0

(***************************************************************************)
(* Properties of closing a worker                                          *)
(***************************************************************************)
\* The step hands worker w a task from the backlog
Dequeues(w) == func[w] = NoWork /\ func'[w] # NoWork

\* C21: once close has set a worker's flag, that worker takes no new task
\* from the queue, whatever the interleaving of the flag write with the
\* worker's dequeue loop.
C21_NoDequeueAfterFlag ==
    [][\A w \in WorkerIds : closed[w] => ~Dequeues(w)]_vars

ReRegisters ==
    /\ last_op'.n # last_op.n
    /\ last_op'.op = "add_or_change_route"
    /\ last_op'.route # <<>>
    /\ RegisteredExactly(tree, last_op'.route, last_op'.method)

\* The call replaced the endpoint of the path and method and nothing else
Replaced ==
    LET node == Segments(last_op'.route) IN
    /\ last_op'.result = "Ok"
    /\ DOMAIN tree' = DOMAIN tree
    /\ get_route(tree', last_op'.route) = node
    /\ brw_resolution(tree', node, last_op'.method) = last_op'.endpoint
    /\ \A n \in DOMAIN tree : \A m \in Methods :
          (n # node \/ m # last_op'.method) => tree'[n][m] = tree[n][m]

\* C23: re-registering an existing (path, method) through
\* add_or_change_route replaces the endpoint: a lookup of the path then
\* yields the second endpoint for the method, the node holding no other
\* one for it.
C23_ReRegisterReplaces == [][ReRegisters => Replaced]_vars

\* The path goes on after a wildcard segment
PastWildcard(segments) ==
    \E i \in 1..(Len(segments) - 1) : segments[i] = Wild

\* The same for routes that do not end with a slash and do not go on
\* after a wildcard
ReRegisterReplacesUnslashed ==
    [][(/\ ReRegisters
        /\ last_op'.route = <<"/">> \/ last_op'.route[Len(last_op'.route)] # "/"
        /\ ~PastWildcard(Segments(last_op'.route)))
          => Replaced]_vars

\* C24: after any sequence of add_route calls a wildcard node has no
\* children: an add_route whose path continues past a {*} segment is
\* rejected and creates no node below the wildcard.
C24_WildcardIsTerminal ==
    /\ \A node \in DOMAIN tree : ~PastWildcard(node)
    /\ (last_op.op \in {"add_route", "add_or_change_route"}
            /\ PastWildcard(Segments(last_op.route))) => last_op.result # "Ok"

(***************************************************************************)
(* Properties of the size of the pool                                      *)
(***************************************************************************)
\* C25: in every state reachable after App::bind the pool holds at least
\* one worker and size() is the number of workers held, whatever factor
\* scale_workers is called with, 0 and 1 included: scaling never reduces
\* the number of workers.
C25_PoolNeverShrinks ==
    /\ [](/\ workers >= 1
          /\ size = workers
          /\ \A w \in 1..workers : wpc[w] # "none")
    /\ [][workers' >= workers /\ size' >= size]_vars

\* scale_workers was called with factor 0 on the pool App::bind made
C25_Witness ==
    /\ worker_scale_factor = 0 /\ apc \in {"panicked", "create_workers"}
    /\ workers = initial_workers_size

\* The step is a call of scale_workers on a pool of `workers` workers
Scales == apc = "scale" /\ apc' # "scale"

\* scale_workers has returned with workers * factor workers: the old ones
\* as they were, the additional ones started on the queue
Scaled ==
    /\ apc' = "yield"
    /\ workers' = workers * worker_scale_factor
    /\ size' = workers'
    /\ \A w \in 1..workers : wpc'[w] = wpc[w]
    /\ \A w \in (workers + 1)..workers' :
          /\ wpc[w] = "none" /\ wpc'[w] = "check"
          /\ worker_call'[w].tasks = 1 /\ ~closed'[w]
    /\ UNCHANGED <<work, chan>>

\* C26: scale_workers(factor) on a pool of n workers creates and starts
\* exactly n * factor - n additional workers on the same queue and result
\* channel and leaves n * factor workers.
C26_ScaleMultiplies == [][Scales => Scaled]_vars

\* The same for the factors from 1 on
ScaleMultipliesFromOne ==
    [][Scales /\ worker_scale_factor >= 1 => Scaled]_vars

(***************************************************************************)
(* Properties of the order of the queue                                    *)
(***************************************************************************)
\* The one producer enqueues its futures in the order of their numbers:
\* future g entered the queue before future f
EnqueuedBefore(g, f) == g < f

\* C27: items leave the queue in the order they entered it: with a single
\* producer, an item enqueued before another one is handed to a worker
\* before it, whatever the number of workers.
C27_FifoOrder ==
    /\ [](\A i, j \in 1..Len(work) : i < j => EnqueuedBefore(work[i], work[j]))
    /\ [][\A w \in WorkerIds : Dequeues(w) =>
            \A g \in Futures : EnqueuedBefore(g, func'[w]) =>
                queued[g] = 1 /\ Count(work, g) = 0]_vars

\* The older of two queued futures has been handed to a worker of a pool of
\* two, the younger one is still in the backlog while the other worker is
\* about to dequeue
C27_Witness ==
    /\ workers = 2 /\ work = <<2>>
    /\ \E v, w \in WorkerIds : v # w /\ func[v] = 1 /\ wpc[w] = "try"

\* The frames of size zero among what was written
Terminators(out) == {i \in 1..Len(out) : out[i] = end_of_stream}

\* resolve returned Ok for the connection
Resolved == conn.pc = "done"

\* C28: the emitter writes the status line and the header block ending
\* with Transfer-Encoding: chunked, then one frame per non-empty chunk of
\* the body in stream order, skipping the empty chunks, then the
\* zero-size chunk exactly once when the stream has ended, also for an
\* empty body, and nothing after it; a connection carries one response:
\* what is on the stream is at every moment an initial part of that
\* response, it only grows, and it is the whole response when resolve
\* returns Ok.
C28_ChunkedResponse ==
    /\ [](IF conn.resolved = NoResolution THEN conn.out = <<>>
          ELSE LET response == Response(conn.request, conn.resolved)
                   block == response[1]
               IN  /\ IsPrefix(conn.out, response)
                   /\ block.kind = "headers"
                   /\ block.lines[Len(block.lines)] = "Transfer-Encoding: chunked"
                   /\ \A i \in 2..Len(response) : response[i].kind = "chunk"
                   /\ Terminators(response) = {Len(response)}
                   /\ Resolved <=> conn.out = response)
    /\ [][conn.out # <<>> =>
            \/ conn'.out = conn.out
            \/ \E written \in {header_str(conn.request, conn.resolved),
                                end_of_stream}
                    \cup {buffer(conn.resolved.content[i]) :
                            i \in 1..Len(conn.resolved.content)} :
                  /\ ~Resolved
                  /\ conn'.out = Append(conn.out, written)
            \/ conn.pc \in {"done", "error"} /\ conn'.out = <<>>]_vars

\* resolve returned Ok for a body of three chunks of which the second is
\* empty: the header block, two frames and the terminator are on the stream
C28_Witness ==
    /\ Resolved
    /\ Len(conn.resolved.content) = 3
    /\ conn.resolved.content[2] = empty_content
    /\ Len(conn.out) = 4

\* The pipeline failed before the middleware: the request could not be
\* parsed, or no endpoint serves it
FailedEarly == conn.error \in {"InvalidData", "NoRouteExist"}

\* C29: an error inside the pipeline of a connection stays with that
\* connection: after a parse or routing failure no middleware and no
\* endpoint has run and nothing is on the stream; the step that fails
\* changes nothing of the router, the middleware or the pool; the error
\* callback is called once, with the error, when the future ends, and not
\* at all for a future that ended well; and the worker that ran the
\* future goes on to its next dequeue.
C29_ErrorsAreLocal ==
    /\ [](FailedEarly /\ conn.pc = "error" => conn.calls = <<>> /\ conn.out = <<>>)
    /\ [][conn'.pc = "error" /\ conn.pc # "error" =>
            UNCHANGED <<global_middleware, routerVars, poolVars, appVars>>]_vars
    /\ [][conn'.error_callback # conn.error_callback =>
            \/ conn.pc = "error" /\ conn'.error_callback = <<conn.error>>
            \/ conn'.error_callback = <<>>]_vars
    /\ [][conn.pc = "error" /\ conn'.pc # "error" =>
            conn'.error_callback = <<conn.error>>]_vars
    /\ [](conn.pc # "returned" => conn.error_callback = <<>>)
    /\ \A w \in WorkerIds :
          (wpc[w] = "running" /\ conn.pc = "error")
              ~> (wpc[w] \in {"poll", "await"})

\* The worker has dequeued the second connection and runs its future,
\* after the future of the first ended in NoRouteExist and the callback
\* was called with it
C29_Witness ==
    \E w \in WorkerIds :
        /\ wpc[w] = "running" /\ func[w] = 2
        /\ conn.pc = "returned"
        /\ conn.error_callback = <<"NoRouteExist">>

\* The strings get_route is asked for: "/wild/asd" and "/wild/asd/deep",
\* each also with a trailing slash, with doubled slashes and without the
\* leading slash, and "/", "" and "//"
LookupRoutes ==
    { <<"/", "wild", "/", "asd">>,
      <<"/", "wild", "/", "asd", "/">>,
      <<"/", "/", "wild", "/", "/", "asd">>,
      <<"wild", "/", "asd">>,
      <<"/", "wild", "/", "asd", "/", "deep">>,
      <<"/", "wild", "/", "asd", "/", "deep", "/">>,
      <<"/", "/", "wild", "/", "/", "asd", "/", "/", "deep">>,
      <<"wild", "/", "asd", "/", "deep">>,
      <<"/">>,
      <<>>,
      <<"/", "/">> }

\* C30: get_route ignores empty segments: two strings with the same
\* non-empty segments ("/a/b", "/a/b/", "//a//b") return the same node,
\* or both none, and "/", the empty string and "//" return the root.
C30_GetRouteIgnoresEmptySegments ==
    /\ \A p, q \in LookupRoutes :
          Segments(p) = Segments(q) => get_route(tree, p) = get_route(tree, q)
    /\ \A p \in LookupRoutes : Segments(p) = <<>> => get_route(tree, p) = Root

\* "/wild/asd" is a node of the tree, and it is the node "/wild/asd/",
\* "//wild//asd" and "wild/asd" return
C30_Witness ==
    /\ <<<<"wild">>, <<"asd">>>> \in DOMAIN tree
    /\ get_route(tree, <<"/", "wild", "/", "asd", "/">>) = <<<<"wild">>, <<"asd">>>>
    /\ get_route(tree, <<"/", "/", "wild", "/", "/", "asd">>) = <<<<"wild">>, <<"asd">>>>
    /\ get_route(tree, <<"wild", "/", "asd">>) = <<<<"wild">>, <<"asd">>>>

(***************************************************************************)
(* The tasks run their lock operations one at a time.  Mutex::lock waits   *)
(* until the guard is free, also when the task itself holds it; a task     *)
(* that reaches its end starts again on the next connection or call.       *)
(***************************************************************************)
TaskOp(t) == Program(t)[task_pc[t]]

advance(t) ==
    task_pc' = [task_pc EXCEPT ![t] =
                    IF task_pc[t] = Len(Program(t)) THEN 1 ELSE task_pc[t] + 1]

MutexLock(t) ==
    /\ TaskOp(t).op = "lock"
    /\ held[TaskOp(t).mutex] = NoTask
    /\ held' = [held EXCEPT ![TaskOp(t).mutex] = t]
    /\ advance(t)
    /\ UNCHANGED <<poolVars, appVars, closeVars, routerVars, pipeVars,
                   lifeVars, callVars>>

GuardDrop(t) ==
    /\ TaskOp(t).op = "drop"
    /\ held[TaskOp(t).mutex] = t
    /\ held' = [held EXCEPT ![TaskOp(t).mutex] = NoTask]
    /\ advance(t)
    /\ UNCHANGED <<poolVars, appVars, closeVars, routerVars, pipeVars,
                   lifeVars, callVars>>

UserCall(t) ==
    /\ TaskOp(t).op = "call"
    /\ advance(t)
    /\ UNCHANGED <<held, poolVars, appVars, closeVars, routerVars, pipeVars,
                   lifeVars, callVars>>

NextLocks == \E t \in Tasks : MutexLock(t) \/ GuardDrop(t) \/ UserCall(t)

SpecLocks == InitServe /\ [][NextLocks]_vars

\* The guards a task holds
Guards(t) == {m \in Mutexes : held[m] = t}

\* The task is inside Mutex::lock and the guard is taken
Waiting(t) == TaskOp(t).op = "lock" /\ held[TaskOp(t).mutex] # NoTask

\* The task that holds what t waits for, n steps down the chain
RECURSIVE WaitsFor(_, _)
WaitsFor(t, n) ==
    IF n = 0 THEN t
    ELSE LET u == WaitsFor(t, n - 1)
         IN IF u # NoTask /\ Waiting(u) THEN held[TaskOp(u).mutex] ELSE NoTask

CircularWait == \E t \in Tasks : \E n \in 1..Cardinality(Tasks) : WaitsFor(t, n) = t

\* C33: when the pipeline calls a middleware or the endpoint it holds no
\* guard, in particular not the one of the router tree, and user code that
\* locks the router gets it
C33_UserCodeRunsUnlocked ==
    \A t \in Connections :
        /\ TaskOp(t).op = "call" => Guards(t) = {}
        /\ ~(Waiting(t) /\ held[TaskOp(t).mutex] = t)

\* An endpoint holds the router it locked itself, while the other pipeline
\* and the registration wait for it
C33_Witness ==
    /\ task_pc["conn1"] > Len(handle_client_request_locks("conn1")) - 4
    /\ Guards("conn1") = {"router", root_node}
    /\ Waiting("conn2")
    /\ Waiting("register")

\* C36: no set of tasks waits for each other's guards in a circle, and in
\* every state some task can take its next step
C36_NoCircularWait ==
    /\ ~CircularWait
    /\ \E t \in Tasks : ~Waiting(t)

\* A pipeline holds the router, a variable node and its request at the same
\* time while the other pipeline and the registration wait for the router
\* and the accept loop holds the work manager and the scale factor
C36_Witness ==
    /\ Guards("conn2") = {"router", var_node, request_lock("conn2")}
    /\ Waiting("conn1") /\ held[TaskOp("conn1").mutex] = "conn2"
    /\ Waiting("register") /\ held[TaskOp("register").mutex] = "conn2"
    /\ Guards("accept") = {"work_manager", "worker_scale_factor"}

\* close sent the shutdown message and awaits the driver task
CloseAwaits == close_pc = "join" /\ app_call.op = "close"

CloseReturned == close_pc = "closed" /\ app_call.result = "Ok(Closed)"

\* C34: a close of a running App returns Ok(Closed): the driver task
\* observes the shutdown message and ends, wherever it was when close was
\* called
C34_CloseReturns == CloseAwaits ~> CloseReturned

\* The same for scale factors from 1 on
CloseReturnsScaled ==
    (CloseAwaits /\ worker_scale_factor >= 1) ~> CloseReturned

\* close was called while the driver was between a Blocked queue_work and
\* its retry, and has returned
CloseReturnedFromRetry ==
    /\ CloseReturned
    /\ apc = "exited"
    /\ accepted = MaxConns

\* A registration call returned Ok
Registers ==
    /\ last_op'.n # last_op.n
    /\ last_op'.op \in {"add_route", "add_or_change_route"}
    /\ last_op'.result = "Ok"

\* Every endpoint the tree held for another path or method is still the
\* endpoint of its node
OthersKept ==
    \A node \in DOMAIN tree : \A method \in Methods :
        (/\ tree[node][method] # NoEndPoint
         /\ ~(node = Segments(last_op'.route) /\ method = last_op'.method))
        => /\ node \in DOMAIN tree'
           /\ tree'[node][method] = tree[node][method]

\* C31: a registration that returns Ok removes or changes no endpoint
\* registered earlier for a different path or method, also when it adds a
\* second method on a variable path or a longer route through a variable
\* segment.
C31_RegistrationKeepsOthers == [][Registers => OthersKept]_vars

\* The same for routes without a variable or wildcard segment
RegistrationKeepsOthersLiteral ==
    [][(Registers /\ \A i \in 1..Len(Segments(last_op'.route)) :
                        ~is_variable_id(Segments(last_op'.route)[i]))
          => OthersKept]_vars

\* The worker is idle: its driver task waits in deque for the wake signal
Parked(w) == wpc[w] = "await" /\ fut[w] = "waiting"

\* C32: Worker.close on a started worker that is parked in deque
\* eventually returns Ok, also when other workers are parked on the same
\* queue and are not being closed.
C32_CloseOfIdleWorkerReturns ==
    \A w \in WorkerIds :
        (cpc[w] = "called" /\ Parked(w) /\ ~closed[w]) ~> (cpc[w] = "ok")

\* deque of worker w returns None in this step
DequeNone(w) == wpc[w] # "exited" /\ wpc'[w] = "exited"

\* deque of worker w returns an item in this step
DequeSome(w) == wpc[w] # "poll" /\ wpc'[w] = "poll"

\* fut.await of worker w completes in this step
WokenUp(w) == wpc[w] = "await" /\ wpc'[w] # "await"

\* try_deque of worker w found the backlog empty in this step
FoundEmpty(w) == wpc[w] = "try" /\ wpc'[w] # "try" /\ work = <<>>

\* C35: deque returns None only from its check of the flag, with the flag
\* set and the backlog untouched; an item it returns is the head of the
\* backlog, removed, and was enqueued; a wake-up leads back to the flag test,
\* and a try_deque that finds the backlog empty leads to the wait
C35_DequeReturns ==
    [][\A w \in WorkerIds :
          /\ DequeNone(w) => wpc[w] = "check" /\ closed[w] /\ work' = work
          /\ DequeSome(w) =>
                /\ wpc[w] = "try" /\ work # <<>>
                /\ func'[w] = Head(work) /\ work' = Tail(work)
                /\ queued[func'[w]] > 0
          /\ WokenUp(w) => wpc'[w] = "check"
          /\ FoundEmpty(w) => wpc'[w] = "await"]_vars

\* The wake-up of the close of worker 2 went to worker 1, which found the
\* backlog empty and waits again; the wake-up of the queue call that
\* followed went to worker 2, whose deque returned None and left the item
C35_Witness ==
    /\ closed[2] /\ cpc[2] = "ok" /\ wpc[2] = "exited"
    /\ ~closed[1] /\ Parked(1)
    /\ work # <<>>
    /\ \A f \in 1..MaxConns : started[f] = 0

\* join_all is over: every close future of close_and_finish_work is done
\* and the call is about to return; its borrow keeps the queue as it is
AboutToReturn ==
    /\ cfw = "closing"
    /\ \A w \in 1..workers : cpc[w] \in {"ok"} \union CloseErrors

InWork(f) == \E i \in 1..Len(work) : work[i] = f

\* The future is in the backlog and was neither polled nor answered
Left(f) == InWork(f) /\ started[f] = 0 /\ sent[f] = 0

\* No worker was created since the workers of the pool were closed
NoNewWorker == \A w \in 1..workers : wpc[w] = "exited"

NeverStarted == driver_tasks = 0 /\ ~dropped

\* The step is a call of close or close_unchecked
CloseCalled ==
    /\ app_call' # app_call
    /\ app_call'.op \in {"close", "close_unchecked"}

\* C38: close and close_unchecked on an App that was never started return
\* Err(Closed) and change nothing, the listener is kept and a following
\* start returns Ok(Running); state() is Closed before the first start,
\* becomes Running with a successful start, Closed with the next call of
\* close or close_unchecked, and changes at no other call
C38_CloseBeforeStart ==
    /\ [][CloseCalled /\ NeverStarted =>
            /\ app_call'.result = "Err(Closed)"
            /\ listener /\ AppUnchanged
            /\ state' = "Closed"]_vars
    /\ [][Returned("start") /\ NeverStarted =>
            app_call'.result = "Ok(Running)"]_vars
    /\ [](NeverStarted => state = "Closed")
    /\ [][~dropped' =>
            state' = IF Returned("start") /\ app_call'.result = "Ok(Running)"
                     THEN "Running"
                     ELSE IF CloseCalled THEN "Closed" ELSE state]_vars

\* close was refused on an App that was never started
C38_Witness ==
    /\ NeverStarted
    /\ app_call = AppCall(app_call.n, "close", "Err(Closed)")
    /\ listener /\ state = "Closed"

====
